---- MODULE Spec2Model ----
(***************************************************************************)
(* Model of the stream-deobfuscation engine of lobster                     *)
(* (internal/extract): key derivation (keygen2), the seeded generators,    *)
(* the three-layer cipher (reverseLayer, columnarCipher2, seedShuffle2),   *)
(* the lenient base64 decoder (atob) and the framing step of decryptSrc2.  *)
(* Around it: the client-key scraper (extractClientKey), the resolver      *)
(* (MegaCloudExtractor.Extract) and its server-key cache (getMegacloudKey).*)
(*                                                                         *)
(* Strings are sequences of byte values 0..255.  Integers wider than TLC's *)
(* native range (math/big values, uint64) are sequences of 15-bit limbs,   *)
(* least significant first, without leading zero limbs; 0 is <<>>.         *)
(*                                                                         *)
(* A loop of the code, for i := lo; i <= hi; i++ { st = step(st, i) }, is  *)
(* an operator XxxLoop(st, lo, hi) that runs the first half of the range   *)
(* and then the second half on the state the first half left: the same     *)
(* iterations in the same order, at logarithmic evaluation depth.          *)
(***************************************************************************)
EXTENDS Integers, Sequences, FiniteSets, TLC

\* e, once v has been computed: loops carry computed values, not pending ones
Strict(v, e) == IF v = v THEN e ELSE e

Mid(lo, hi) == (lo + hi) \div 2

MaxOf(a, b) == IF a > b THEN a ELSE b

MinOf(a, b) == IF a < b THEN a ELSE b

(***************************************************************************)
(* Arbitrary-precision naturals (math/big, uint64).                        *)
(***************************************************************************)
LimbBase == 2^15

Limb(a, i) == IF i <= Len(a) THEN a[i] ELSE 0

\* a without its leading zero limbs
BigNorm(a) ==
    LET top == CHOOSE i \in 0..Len(a) :
                  /\ i = 0 \/ a[i] # 0
                  /\ \A j \in (i + 1)..Len(a) : a[j] = 0
    IN  SubSeq(a, 1, top)

\* big.NewInt(n), uint64(n) for 0 <= n < 2^31
BigFromInt(n) ==
    BigNorm(<<n % LimbBase, (n \div LimbBase) % LimbBase, n \div (LimbBase * LimbBase)>>)

RECURSIVE BigAddLoop(_, _, _, _, _)
\* <<limbs lo..hi of a + b, carry out>>
BigAddLoop(a, b, lo, hi, carry) ==
    IF lo > hi THEN <<<<>>, carry>>
    ELSE IF lo = hi
    THEN LET s == Limb(a, lo) + Limb(b, lo) + carry
         IN  <<<<s % LimbBase>>, s \div LimbBase>>
    ELSE LET left == BigAddLoop(a, b, lo, Mid(lo, hi), carry)
             right == BigAddLoop(a, b, Mid(lo, hi) + 1, hi, left[2])
         IN  Strict(left, <<left[1] \o right[1], right[2]>>)

\* (*big.Int).Add
BigAdd(a, b) ==
    LET r == BigAddLoop(a, b, 1, MaxOf(Len(a), Len(b)), 0)
    IN  IF r[2] = 0 THEN r[1] ELSE Append(r[1], r[2])

RECURSIVE BigSubLoop(_, _, _, _, _)
\* <<limbs lo..hi of a - b, borrow out>>
BigSubLoop(a, b, lo, hi, borrow) ==
    IF lo > hi THEN <<<<>>, borrow>>
    ELSE IF lo = hi
    THEN LET d == Limb(a, lo) - Limb(b, lo) - borrow
         IN  IF d < 0 THEN <<<<d + LimbBase>>, 1>> ELSE <<<<d>>, 0>>
    ELSE LET left == BigSubLoop(a, b, lo, Mid(lo, hi), borrow)
             right == BigSubLoop(a, b, Mid(lo, hi) + 1, hi, left[2])
         IN  Strict(left, <<left[1] \o right[1], right[2]>>)

\* (*big.Int).Sub for a >= b (the only case the code reaches)
BigSub(a, b) == BigNorm(BigSubLoop(a, b, 1, Len(a), 0)[1])

RECURSIVE BigMulSmallLoop(_, _, _, _, _)
\* <<limbs lo..hi of a * m, carry out>>
BigMulSmallLoop(a, m, lo, hi, carry) ==
    IF lo > hi THEN <<<<>>, carry>>
    ELSE IF lo = hi
    THEN LET p == a[lo] * m + carry
         IN  <<<<p % LimbBase>>, p \div LimbBase>>
    ELSE LET left == BigMulSmallLoop(a, m, lo, Mid(lo, hi), carry)
             right == BigMulSmallLoop(a, m, Mid(lo, hi) + 1, hi, left[2])
         IN  Strict(left, <<left[1] \o right[1], right[2]>>)

\* a * m for 0 <= m < 2^15
BigMulSmall(a, m) ==
    LET r == BigMulSmallLoop(a, m, 1, Len(a), 0)
    IN  IF m = 0 THEN <<>> ELSE IF r[2] = 0 THEN r[1] ELSE Append(r[1], r[2])

Zeros(n) == [k \in 1..n |-> 0]

RECURSIVE BigMulFrom(_, _, _)
BigMulFrom(a, b, i) ==
    IF i > Len(b) THEN <<>>
    ELSE BigAdd(BigNorm(Zeros(i - 1) \o BigMulSmall(a, b[i])), BigMulFrom(a, b, i + 1))

\* (*big.Int).Mul, and the exact product of two unsigned machine words
\* (b has at most three limbs wherever the code multiplies)
BigMul(a, b) == BigMulFrom(a, b, 1)

\* (*big.Int).Lsh: a * 2^k
BigLsh(a, k) ==
    BigNorm(Zeros(k \div 15) \o BigMulSmall(a, 2^(k % 15)))

\* a mod 2^k: And with the mask 2^k - 1, and the truncation to a k-bit word
BigMask(a, k) ==
    LET q == k \div 15
        r == k % 15
    IN  BigNorm([i \in 1..(IF r = 0 THEN q ELSE q + 1) |->
                    IF i <= q THEN Limb(a, i) ELSE Limb(a, i) % (2^r)])

\* a div 2^k
BigRsh(a, k) ==
    LET q == k \div 15
        r == k % 15
        n == IF Len(a) > q THEN Len(a) - q ELSE 0
    IN  BigNorm([i \in 1..n |->
                    (Limb(a, q + i) \div (2^r))
                    + (Limb(a, q + i + 1) % (2^r)) * (2^(15 - r))])

\* -1, 0 or 1 as a < b, a = b, a > b (a and b without leading zero limbs)
BigCmp(a, b) ==
    IF Len(a) # Len(b) THEN (IF Len(a) < Len(b) THEN -1 ELSE 1)
    ELSE LET differ == {i \in 1..Len(a) : a[i] # b[i]}
             top == CHOOSE i \in differ : \A j \in differ : j <= i
         IN  IF differ = {} THEN 0 ELSE IF a[top] < b[top] THEN -1 ELSE 1

RECURSIVE BigModSmallLoop(_, _, _, _, _)
\* the remainder after limbs hi, hi-1 .. lo, entered with remainder r
BigModSmallLoop(a, m, hi, lo, r) ==
    IF hi < lo THEN r
    ELSE IF hi = lo THEN (r * LimbBase + a[hi]) % m
    ELSE LET upper == BigModSmallLoop(a, m, hi, Mid(lo, hi) + 1, r)
         IN  Strict(upper, BigModSmallLoop(a, m, Mid(lo, hi), lo, upper))

\* a mod m for 0 < m <= 2^15
BigModSmall(a, m) == BigModSmallLoop(a, m, Len(a), 1, 0)

\* 2^k - 1
BigOnes(k) == BigSub(BigLsh(<<1>>, k), <<1>>)

RECURSIVE BigModOnes(_, _)
\* (*big.Int).Mod(a, 2^k - 1): the Euclidean remainder, by 2^k = 1 (mod 2^k - 1)
BigModOnes(a, k) ==
    IF BigCmp(a, BigOnes(k)) < 0 THEN a
    ELSE IF BigCmp(a, BigOnes(k)) = 0 THEN <<>>
    ELSE BigModOnes(BigAdd(BigMask(a, k), BigRsh(a, k)), k)

(***************************************************************************)
(* Go strings: UTF-8 decoding ([]rune(s), range s) and encoding            *)
(* (string([]rune)).  An ill-formed byte decodes to U+FFFD, width 1.       *)
(***************************************************************************)
At(s, i) == IF i <= Len(s) THEN s[i] ELSE -1

Cont(b) == b \in 128..191

\* <<rune, width>> of the encoding that starts at byte i of s
DecodeRuneAt(s, i) ==
    LET b0 == s[i]
        b1 == At(s, i + 1)
        b2 == At(s, i + 2)
        b3 == At(s, i + 3)
        lo3 == IF b0 = 224 THEN 160 ELSE 128
        hi3 == IF b0 = 237 THEN 159 ELSE 191
        lo4 == IF b0 = 240 THEN 144 ELSE 128
        hi4 == IF b0 = 244 THEN 143 ELSE 191
    IN  IF b0 < 128 THEN <<b0, 1>>
        ELSE IF b0 \in 194..223 /\ Cont(b1)
             THEN <<(b0 % 32) * 64 + (b1 % 64), 2>>
        ELSE IF b0 \in 224..239 /\ b1 \in lo3..hi3 /\ Cont(b2)
             THEN <<(b0 % 16) * 4096 + (b1 % 64) * 64 + (b2 % 64), 3>>
        ELSE IF b0 \in 240..244 /\ b1 \in lo4..hi4 /\ Cont(b2) /\ Cont(b3)
             THEN <<(b0 % 8) * 262144 + (b1 % 64) * 4096 + (b2 % 64) * 64 + (b3 % 64), 4>>
        ELSE <<65533, 1>>

RECURSIVE RangeLoop(_, _, _, _)
\* st = <<entries so far, byte index of the next rune>>, over bytes lo..hi
RangeLoop(s, st, lo, hi) ==
    IF lo > hi THEN st
    ELSE IF lo = hi
    THEN IF lo = st[2]
         THEN <<Append(st[1], DecodeRuneAt(s, lo)[1]), lo + DecodeRuneAt(s, lo)[2]>>
         ELSE <<Append(st[1], -1), st[2]>>
    ELSE LET left == RangeLoop(s, st, lo, Mid(lo, hi))
         IN  Strict(left, RangeLoop(s, left, Mid(lo, hi) + 1, hi))

\* range s: one entry per byte of s, the rune that starts at that byte, and
\* -1 at a byte inside a rune
RangeString(s) == RangeLoop(s, <<<<>>, 1>>, 1, Len(s))[1]

IsRuneStart(r) == r >= 0

\* []rune(s)
Runes(s) == SelectSeq(RangeString(s), IsRuneStart)

\* string(rune)
EncodeRune(r) ==
    IF r < 0 \/ r > 1114111 \/ r \in 55296..57343 THEN <<239, 191, 189>>
    ELSE IF r < 128 THEN <<r>>
    ELSE IF r < 2048 THEN <<192 + (r \div 64), 128 + (r % 64)>>
    ELSE IF r < 65536
         THEN <<224 + (r \div 4096), 128 + ((r \div 64) % 64), 128 + (r % 64)>>
    ELSE <<240 + (r \div 262144), 128 + ((r \div 4096) % 64),
           128 + ((r \div 64) % 64), 128 + (r % 64)>>

RECURSIVE StringOfLoop(_, _, _)
StringOfLoop(rs, lo, hi) ==
    IF lo > hi THEN <<>>
    ELSE IF lo = hi THEN EncodeRune(rs[lo])
    ELSE StringOfLoop(rs, lo, Mid(lo, hi)) \o StringOfLoop(rs, Mid(lo, hi) + 1, hi)

\* string([]rune)
StringOf(rs) == StringOfLoop(rs, 1, Len(rs))

\* reverseString
reverseString(s) ==
    LET runes == Runes(s)
    IN  StringOf([i \in 1..Len(runes) |-> runes[Len(runes) + 1 - i]])

\* strconv.Itoa for 0 <= n <= 9
Itoa(n) == <<48 + n>>

\* the last index i (from 0) with arr[i+1] = v, or -1: a Go map built by a
\* range loop over arr keeps the last index of a repeated key
LastIndex(arr, v) ==
    LET S == {i \in 1..Len(arr) : arr[i] = v}
    IN  IF S = {} THEN -1 ELSE (CHOOSE i \in S : \A j \in S : j <= i) - 1

(***************************************************************************)
(* The seeded generators.                                                  *)
(***************************************************************************)
lcgMultiplier == BigFromInt(1103515245)
lcgIncrement == BigFromInt(12345)

RECURSIVE seedHashLoop(_, _, _, _)
seedHashLoop(layerKey, hashVal, lo, hi) ==
    IF lo > hi THEN hashVal
    ELSE IF lo = hi
    THEN BigMask(BigAdd(BigMul(hashVal, BigFromInt(31)), BigFromInt(layerKey[lo])), 32)
    ELSE LET left == seedHashLoop(layerKey, hashVal, lo, Mid(lo, hi))
         IN  Strict(left, seedHashLoop(layerKey, left, Mid(lo, hi) + 1, hi))

\* reverseLayer: the seed, a math/big hash masked to 32 bits at every byte
seedHash(layerKey) == seedHashLoop(layerKey, <<>>, 1, Len(layerKey))

\* reverseLayer: seedRand's state update, in uint64
seedRandStep(seed) ==
    BigMask(BigMask(BigAdd(BigMul(seed, lcgMultiplier), lcgIncrement), 64), 31)

RECURSIVE shuffleHashLoop(_, _, _, _)
shuffleHashLoop(iKey, hashVal, lo, hi) ==
    IF lo > hi THEN hashVal
    ELSE IF lo = hi
    THEN BigMask(BigMask(BigAdd(BigMul(hashVal, BigFromInt(31)), BigFromInt(iKey[lo])), 64), 32)
    ELSE LET left == shuffleHashLoop(iKey, hashVal, lo, Mid(lo, hi))
         IN  Strict(left, shuffleHashLoop(iKey, left, Mid(lo, hi) + 1, hi))

\* seedShuffle2: the seed, in uint64
shuffleHash(iKey) == shuffleHashLoop(iKey, <<>>, 1, Len(iKey))

\* fault variant of pseudoRandStep: the state is masked with 0xffffffff
pseudoRandStepMask32(shuffleNum) ==
    BigMask(BigMask(BigAdd(BigMul(shuffleNum, lcgMultiplier), lcgIncrement), 64), 32)

\* seedShuffle2: pseudoRand's state update, in uint64
pseudoRandStep(shuffleNum) ==
    BigMask(BigMask(BigAdd(BigMul(shuffleNum, lcgMultiplier), lcgIncrement), 64), 31)

Swap(arr, i, j) == [arr EXCEPT ![i] = arr[j], ![j] = arr[i]]

\* fault variant of fisherYatesStep: result[i] = result[j] without the swap
fisherYatesStepOverwrite(st, i) ==
    LET s == pseudoRandStep(st[2])
        j == BigModSmall(s, i + 1)
    IN  <<[st[1] EXCEPT ![i + 1] = st[1][j + 1]], s>>

\* one iteration of the Fisher-Yates loop, i counted from 0; st = <<result, shuffleNum>>
fisherYatesStep(st, i) ==
    LET s == pseudoRandStep(st[2])
        j == BigModSmall(s, i + 1)
    IN  <<Swap(st[1], i + 1, j + 1), s>>

RECURSIVE fisherYatesLoop(_, _, _)
\* the iterations i = hi, hi - 1 .. lo
fisherYatesLoop(st, hi, lo) ==
    IF hi < lo THEN st
    ELSE IF hi = lo THEN fisherYatesStep(st, hi)
    ELSE LET upper == fisherYatesLoop(st, hi, Mid(lo, hi) + 1)
         IN  Strict(upper, fisherYatesLoop(upper, Mid(lo, hi), lo))

\* fault variant of seedShuffle2: the shuffle is done in the caller's array
seedShuffle2InPlace(charArray, iKey) ==
    LET shuffled == fisherYatesLoop(<<charArray, shuffleHash(iKey)>>, Len(charArray) - 1, 1)[1]
    IN  [result |-> shuffled, charArray |-> shuffled]

\* seedShuffle2: the shuffled copy, and the caller's array after the call
seedShuffle2(charArray, iKey) ==
    [result |-> fisherYatesLoop(<<charArray, shuffleHash(iKey)>>, Len(charArray) - 1, 1)[1],
     charArray |-> charArray]

(***************************************************************************)
(* Columnar transposition.                                                 *)
(***************************************************************************)
\* one pass of the insertion sort: x sinks below the entries greater than it
sortInsert(sorted, x, ikey) ==
    LET p == Cardinality({k \in 1..Len(sorted) : ikey[sorted[k]] <= ikey[x]})
    IN  SubSeq(sorted, 1, p) \o <<x>> \o SubSeq(sorted, p + 1, Len(sorted))

RECURSIVE sortedMapLoop(_, _, _, _)
sortedMapLoop(ikey, sorted, lo, hi) ==
    IF lo > hi THEN sorted
    ELSE IF lo = hi THEN sortInsert(sorted, lo, ikey)
    ELSE LET left == sortedMapLoop(ikey, sorted, lo, Mid(lo, hi))
         IN  Strict(left, sortedMapLoop(ikey, left, Mid(lo, hi) + 1, hi))

\* the column indices (from 1) in sorted key order, ties in original order
sortedMap(ikey) == sortedMapLoop(ikey, <<>>, 1, Len(ikey))

\* fault variant of columnarCipher2: no early return for the empty key, the
\* grid of zero rows read instead
columnarCipher2NoReturn(src, ikey) == IF Len(ikey) = 0 THEN <<>> ELSE src

\* the k-th column of the sorted order takes src[k*rowCount .. k*rowCount+rowCount-1]
\* (k from 0) while src lasts, the other cells keep the space; read row by row
columnarCipher2(src, ikey) ==
    LET columnCount == Len(ikey)
        rowCount == (Len(src) + columnCount - 1) \div columnCount
        sorted == sortedMap(ikey)
        place == [col \in 1..columnCount |->
                    CHOOSE k \in 1..columnCount : sorted[k] = col]
    IN  IF columnCount = 0 THEN src
        ELSE [n \in 1..(rowCount * columnCount) |->
                LET row == (n - 1) \div columnCount
                    col == ((n - 1) % columnCount) + 1
                    srcIndex == (place[col] - 1) * rowCount + row
                IN  IF srcIndex < Len(src) THEN src[srcIndex + 1] ELSE 32]

(***************************************************************************)
(* atob: the lenient base64 decoder.                                       *)
(***************************************************************************)
\* "ABCDEFGHIJKLMNOPQRSTUVWXYZabcdefghijklmnopqrstuvwxyz0123456789+/"
base64Chars ==
    [i \in 1..26 |-> 64 + i] \o [i \in 1..26 |-> 96 + i]
        \o [i \in 1..10 |-> 47 + i] \o <<43, 47>>

\* '=', '\n', '\r' and ' ' are dropped
atobKept(c) == c \notin {61, 10, 13, 32}

ToByte(c) == c % 256

\* the input without the dropped symbols, each rune cut to a byte, padded
\* with '=' to a multiple of 4
atobEncoded(s) ==
    LET kept == SelectSeq(Runes(s), atobKept)
        bytes == [i \in 1..Len(kept) |-> ToByte(kept[i])]
    IN  bytes \o [i \in 1..((4 - (Len(bytes) % 4)) % 4) |-> 61]

\* vals[j] of one group
atobVal(b) == IF b = 61 \/ LastIndex(base64Chars, b) < 0 THEN 0 ELSE LastIndex(base64Chars, b)

\* fault variant of atobCount: every group counts as full
atobCountFull(g) == 4

\* count of one group: one more than the last position that holds a mapped symbol
atobCount(g) ==
    LET mapped == {j \in 1..4 : g[j] # 61 /\ LastIndex(base64Chars, g[j]) >= 0}
    IN  IF mapped = {} THEN 0 ELSE CHOOSE j \in mapped : \A k \in mapped : k <= j

\* the bytes one group of four symbols appends to the result
atobGroup(g) ==
    LET v == [j \in 1..4 |-> atobVal(g[j])]
        count == atobCount(g)
    IN  (IF count >= 2 THEN <<ToByte(v[1] * 4 + (v[2] \div 16))>> ELSE <<>>)
        \o (IF count >= 3 THEN <<ToByte((v[2] % 16) * 16 + (v[3] \div 4))>> ELSE <<>>)
        \o (IF count >= 4 THEN <<ToByte((v[3] % 4) * 64 + v[4])>> ELSE <<>>)

RECURSIVE atobLoop(_, _, _)
\* the groups lo..hi of encoded (group g holds the bytes 4g-3 .. 4g)
atobLoop(encoded, lo, hi) ==
    IF lo > hi THEN <<>>
    ELSE IF lo = hi THEN atobGroup(SubSeq(encoded, 4 * lo - 3, 4 * lo))
    ELSE atobLoop(encoded, lo, Mid(lo, hi)) \o atobLoop(encoded, Mid(lo, hi) + 1, hi)

atob(s) == atobLoop(atobEncoded(s), 1, Len(atobEncoded(s)) \div 4)

(***************************************************************************)
(* keygen2: key derivation.                                                *)
(***************************************************************************)
keygenXORVal == 247
keygenShiftVal == 5

\* a ^ b on bytes
Xor8(a, b) ==
    LET bit(k) == (((a \div (2^k)) % 2) + ((b \div (2^k)) % 2)) % 2
    IN  bit(0) + 2 * bit(1) + 4 * bit(2) + 8 * bit(3)
        + 16 * bit(4) + 32 * bit(5) + 64 * bit(6) + 128 * bit(7)

\* fault variant of keygenHashStep: the same step in a uint64, which wraps
keygenHashStepUint64(oldHash, c) ==
    LET charVal == BigFromInt(c)
        mul == BigMul(oldHash, BigFromInt(31))
        shift == BigLsh(oldHash, 7)
    IN  BigMask(BigSub(BigAdd(BigAdd(charVal, mul), shift), oldHash), 64)

\* hashVal = charCode + hashVal*31 + (hashVal << 7) - hashVal, in math/big
keygenHashStep(oldHash, c) ==
    LET charVal == BigFromInt(c)
        mul == BigMul(oldHash, BigFromInt(31))
        shift == BigLsh(oldHash, 7)
    IN  BigSub(BigAdd(BigAdd(charVal, mul), shift), oldHash)

RECURSIVE keygenHashLoop(_, _, _, _)
keygenHashLoop(tempKey, hashVal, lo, hi) ==
    IF lo > hi THEN hashVal
    ELSE IF lo = hi THEN keygenHashStep(hashVal, tempKey[lo])
    ELSE LET left == keygenHashLoop(tempKey, hashVal, lo, Mid(lo, hi))
         IN  Strict(left, keygenHashLoop(tempKey, left, Mid(lo, hi) + 1, hi))

\* the hash of tempKey (never negative, so Abs leaves it)
keygenHash(tempKey) == keygenHashLoop(tempKey, <<>>, 1, Len(tempKey))

\* lHash = hashVal mod 0x7fffffffffffffff
keygenLHash(hashVal) == BigModOnes(hashVal, 63)

\* lHash.Int64() and the negation of a negative value: the magnitude of the
\* low 64 bits read as a signed word
keygenLHashInt(lHash) ==
    LET low == BigMask(lHash, 64)
    IN  IF BigCmp(low, BigLsh(<<1>>, 63)) >= 0 THEN BigSub(BigLsh(<<1>>, 64), low) ELSE low

\* pivot, for n = len(tempKeyStr) > 0
keygenPivot(lHashInt, n) ==
    LET pivot == BigModSmall(lHashInt, n) + keygenShiftVal
    IN  IF pivot >= n THEN pivot % n ELSE pivot

\* limit before it is cut to len(returnKey)
keygenLimit(lHashInt) == 96 + BigModSmall(lHashInt, 33)

\* XOR each character
keygenXored(tempKey) == [i \in 1..Len(tempKey) |-> Xor8(tempKey[i], keygenXORVal)]

\* tempKeyStr[pivot:] + tempKeyStr[:pivot]
keygenRotate(str, pivot) == SubSeq(str, pivot + 1, Len(str)) \o SubSeq(str, 1, pivot)

RECURSIVE keygenInterleaveLoop(_, _, _, _)
\* the iterations lo..hi (from 1) of the interleave loop
keygenInterleaveLoop(tempKeyStr, leafStr, lo, hi) ==
    IF lo > hi THEN <<>>
    ELSE IF lo = hi
    THEN (IF lo <= Len(tempKeyStr) THEN <<tempKeyStr[lo]>> ELSE <<>>)
         \o (IF lo <= Len(leafStr) THEN <<leafStr[lo]>> ELSE <<>>)
    ELSE keygenInterleaveLoop(tempKeyStr, leafStr, lo, Mid(lo, hi))
         \o keygenInterleaveLoop(tempKeyStr, leafStr, Mid(lo, hi) + 1, hi)

keygenInterleave(tempKeyStr, leafStr) ==
    keygenInterleaveLoop(tempKeyStr, leafStr, 1, MaxOf(Len(tempKeyStr), Len(leafStr)))

\* fault variant of keygenNormalize: the bytes left as they are
keygenNormalizeOmitted(returnKey) == returnKey

\* Normalize to printable ASCII
keygenNormalize(returnKey) == [i \in 1..Len(returnKey) |-> (returnKey[i] % 95) + 32]

\* fault variant of keygen2: returnKey is not cut to limit
keygen2Untruncated(megacloudKey, clientKey) ==
    LET tempKey == megacloudKey \o clientKey
        lHashInt == keygenLHashInt(keygenLHash(keygenHash(tempKey)))
        tempKeyStr == keygenRotate(keygenXored(tempKey), keygenPivot(lHashInt, Len(tempKey)))
        returnKey == keygenInterleave(tempKeyStr, reverseString(clientKey))
    IN  keygenNormalize(returnKey)

\* keygen2 for len(megacloudKey) + len(clientKey) > 0; with both keys empty
\* the remainder by len(tempKeyStr) divides by zero
keygen2(megacloudKey, clientKey) ==
    LET tempKey == megacloudKey \o clientKey
        lHashInt == keygenLHashInt(keygenLHash(keygenHash(tempKey)))
        tempKeyStr == keygenRotate(keygenXored(tempKey), keygenPivot(lHashInt, Len(tempKey)))
        returnKey == keygenInterleave(tempKeyStr, reverseString(clientKey))
        limit == MinOf(keygenLimit(lHashInt), Len(returnKey))
    IN  keygenNormalize(SubSeq(returnKey, 1, limit))

(***************************************************************************)
(* reverseLayer: one layer of the cipher.                                  *)
(***************************************************************************)
\* fault variant of layerShiftStep: randNum is added, not subtracted
layerShiftStepAdding(st, ch, charArray) ==
    LET cIdx == LastIndex(charArray, ch)
        seed == seedRandStep(st[2])
        randNum == BigModSmall(seed, 95)
        newIdx == (cIdx + randNum) % 95
    IN  IF cIdx < 0 THEN <<Append(st[1], ch), st[2]>>
        ELSE <<Append(st[1], charArray[newIdx + 1]), seed>>

\* one iteration of the shift loop; st = <<shifted runes so far, seed>>
layerShiftStep(st, ch, charArray) ==
    LET cIdx == LastIndex(charArray, ch)
        seed == seedRandStep(st[2])
        randNum == BigModSmall(seed, 95)
        newIdx == (cIdx - randNum + 95) % 95
    IN  IF cIdx < 0 THEN <<Append(st[1], ch), st[2]>>
        ELSE <<Append(st[1], charArray[newIdx + 1]), seed>>

RECURSIVE layerShiftLoop(_, _, _, _, _)
layerShiftLoop(runes, st, lo, hi, charArray) ==
    IF lo > hi THEN st
    ELSE IF lo = hi THEN layerShiftStep(st, runes[lo], charArray)
    ELSE LET left == layerShiftLoop(runes, st, lo, Mid(lo, hi), charArray)
         IN  Strict(left, layerShiftLoop(runes, left, Mid(lo, hi) + 1, hi, charArray))

\* Seed shift (reverse): the string of the shifted runes
layerShift(decSrc, layerKey, charArray) ==
    LET runes == Runes(decSrc)
    IN  StringOf(layerShiftLoop(runes, <<<<>>, seedHash(layerKey)>>, 1, Len(runes), charArray)[1])

\* Apply substitution: charMap[subValues[i]] = charArray[i]; result has one
\* rune per byte of decSrc, written at the byte index where a rune starts
layerSubstitute(decSrc, subValues, charArray) ==
    LET ranged == RangeString(decSrc)
    IN  StringOf([i \in 1..Len(decSrc) |->
                    IF ranged[i] < 0 THEN 0
                    ELSE IF LastIndex(subValues, ranged[i]) < 0 THEN ranged[i]
                    ELSE charArray[LastIndex(subValues, ranged[i]) + 1]])

\* fault variant of reverseLayer: substitution first, shift last
reverseLayerSubstituteFirst(decSrc, genKey, iteration, charArray) ==
    LET layerKey == genKey \o Itoa(iteration)
        shuffle == seedShuffle2(charArray, layerKey)
        substituted == layerSubstitute(decSrc, shuffle.result, shuffle.charArray)
        transposed == columnarCipher2(substituted, layerKey)
        shifted == layerShift(transposed, layerKey, charArray)
    IN  [iteration |-> iteration,
         layerKey |-> layerKey,
         input |-> decSrc,
         shifted |-> shifted,
         transposed |-> transposed,
         subValues |-> shuffle.result,
         charArray |-> shuffle.charArray,
         out |-> shifted]

\* fault variant of reverseLayer: the shuffle draws from the generator of the
\* shift step, in the state the shift left it in
reverseLayerSharedGenerator(decSrc, genKey, iteration, charArray) ==
    LET layerKey == genKey \o Itoa(iteration)
        runes == Runes(decSrc)
        shiftEnd == layerShiftLoop(runes, <<<<>>, seedHash(layerKey)>>, 1, Len(runes), charArray)
        shifted == StringOf(shiftEnd[1])
        transposed == columnarCipher2(shifted, layerKey)
        shuffled == fisherYatesLoop(<<charArray, shiftEnd[2]>>, Len(charArray) - 1, 1)[1]
    IN  [iteration |-> iteration,
         layerKey |-> layerKey,
         input |-> decSrc,
         shifted |-> shifted,
         transposed |-> transposed,
         subValues |-> shuffled,
         charArray |-> charArray,
         out |-> layerSubstitute(transposed, shuffled, charArray)]

\* reverseLayer: the returned string (out), the intermediate strings, the
\* substitution array, and the caller's charArray after the call
reverseLayer(decSrc, genKey, iteration, charArray) ==
    LET layerKey == genKey \o Itoa(iteration)
        shifted == layerShift(decSrc, layerKey, charArray)
        transposed == columnarCipher2(shifted, layerKey)
        shuffle == seedShuffle2(charArray, layerKey)
    IN  [iteration |-> iteration,
         layerKey |-> layerKey,
         input |-> decSrc,
         shifted |-> shifted,
         transposed |-> transposed,
         subValues |-> shuffle.result,
         charArray |-> shuffle.charArray,
         out |-> layerSubstitute(transposed, shuffle.result, shuffle.charArray)]

(***************************************************************************)
(* decryptSrc2: the frame.                                                 *)
(***************************************************************************)
layers == 3

IsDigit(b) == b \in 48..57

\* strconv.Atoi succeeds: an optional sign and at least one digit, all digits
AtoiOk(s) ==
    LET body == IF s # <<>> /\ s[1] \in {43, 45} THEN Tail(s) ELSE s
    IN  body # <<>> /\ \A k \in 1..Len(body) : IsDigit(body[k])

RECURSIVE DigitsValue(_, _)
DigitsValue(body, n) ==
    IF n = 0 THEN 0 ELSE DigitsValue(body, n - 1) * 10 + (body[n] - 48)

\* strconv.Atoi's value, for AtoiOk(s) and Len(s) <= 4
AtoiValue(s) ==
    LET body == IF s[1] \in {43, 45} THEN Tail(s) ELSE s
    IN  IF s[1] = 45 THEN 0 - DigitsValue(body, Len(body)) ELSE DigitsValue(body, Len(body))

(***************************************************************************)
(* extractClientKey: the regular expressions and the key they yield.       *)
(* A regular expression is a sequence of items, each a set of characters   *)
(* taken once (Lit, One) or repeated (Plus, Star).                         *)
(***************************************************************************)
Lit(c) == [set |-> {c}, min |-> 1, many |-> FALSE]
One(set) == [set |-> set, min |-> 1, many |-> FALSE]
Plus(set) == [set |-> set, min |-> 1, many |-> TRUE]
Star(set) == [set |-> set, min |-> 0, many |-> TRUE]
Lits(str) == [n \in 1..Len(str) |-> Lit(str[n])]

\* [a-zA-Z0-9], \s, ["'], ['"`], [xyz], [^>]
Alnum == (48..57) \cup (65..90) \cup (97..122)
Space == {9, 10, 12, 13, 32}
Quote2 == {34, 39}
Quote3 == {34, 39, 96}
FieldName == {120, 121, 122}
NotGt == (0..127) \ {62}

\* the positions after one item taken at position q of s
MatchItem(item, s, q) ==
    IF ~item.many
    THEN IF q <= Len(s) /\ s[q] \in item.set THEN {q + 1} ELSE {}
    ELSE LET stops == {r \in q..(Len(s) + 1) : r = Len(s) + 1 \/ s[r] \notin item.set}
             stop == CHOOSE r \in stops : \A t \in stops : r <= t
         IN  (q + item.min)..stop

RECURSIVE MatchItems(_, _, _, _, _)
\* the positions after the items lo..hi taken from one of the positions in from
MatchItems(items, s, from, lo, hi) ==
    IF from = {} \/ lo > hi THEN from
    ELSE IF lo = hi THEN UNION {MatchItem(items[lo], s, q) : q \in from}
    ELSE LET left == MatchItems(items, s, from, lo, Mid(lo, hi))
         IN  Strict(left, MatchItems(items, s, left, Mid(lo, hi) + 1, hi))

\* (*Regexp).FindString: the leftmost match, "" when there is none
FindString(items, s) ==
    LET ends(p) == MatchItems(items, s, {p}, 1, Len(items))
        starts == {p \in 1..Len(s) : s[p] \in items[1].set /\ ends(p) # {}}
        start == CHOOSE p \in starts : \A q \in starts : p <= q
        end == CHOOSE e \in ends(start) : \A f \in ends(start) : f <= e
    IN  IF starts = {} THEN <<>> ELSE SubSeq(s, start, end - 1)

\* <meta name="_gg_fb" content="[a-zA-Z0-9]+">
metaPattern ==
    Lits(<<60, 109, 101, 116, 97, 32, 110, 97, 109, 101, 61, 34, 95, 103,
      103, 95, 102, 98, 34, 32, 99, 111, 110, 116, 101, 110, 116, 61, 34>>)
        \o <<Plus(Alnum)>> \o Lits(<<34, 62>>)

\* <!--\s+_is_th:[0-9a-zA-Z]+\s+-->
commentPattern ==
    Lits(<<60, 33, 45, 45>>) \o <<Plus(Space)>> \o Lits(<<95, 105, 115, 95, 116, 104, 58>>)
        \o <<Plus(Alnum)>> \o <<Plus(Space)>> \o Lits(<<45, 45, 62>>)

\* [xyz]:\s+["'][a-zA-Z0-9]+["']
lkDbField ==
    <<One(FieldName), Lit(58), Plus(Space), One(Quote2), Plus(Alnum), One(Quote2)>>

\* <script>window\._lk_db\s+=\s+\{field,\s+field,\s+field\};</script>
lkDbPattern ==
    Lits(<<60, 115, 99, 114, 105, 112, 116, 62, 119, 105, 110, 100, 111,
      119, 46, 95, 108, 107, 95, 100, 98>>)
        \o <<Plus(Space)>> \o <<Lit(61)>> \o <<Plus(Space)>> \o <<Lit(123)>>
        \o lkDbField \o <<Lit(44)>> \o <<Plus(Space)>> \o lkDbField \o <<Lit(44)>> \o <<Plus(Space)>> \o lkDbField
        \o Lits(<<125, 59, 60, 47, 115, 99, 114, 105, 112, 116, 62>>)

\* <div\s+data-dpi="[0-9a-zA-Z]+"\s+[^>]*></div>
divPattern ==
    Lits(<<60, 100, 105, 118>>) \o <<Plus(Space)>> \o Lits(<<100, 97, 116, 97, 45, 100, 112, 105, 61, 34>>)
        \o <<Plus(Alnum)>> \o <<Lit(34)>> \o <<Plus(Space)>> \o <<Star(NotGt)>> \o Lits(<<62, 60, 47, 100, 105, 118, 62>>)

\* <script nonce="[0-9a-zA-Z]+">
noncePattern ==
    Lits(<<60, 115, 99, 114, 105, 112, 116, 32, 110, 111, 110, 99, 101, 61,
      34>>) \o <<Plus(Alnum)>> \o Lits(<<34, 62>>)

\* <script>window\._xy_ws = ['"`][0-9a-zA-Z]+['"`];</script>
wsPattern ==
    Lits(<<60, 115, 99, 114, 105, 112, 116, 62, 119, 105, 110, 100, 111,
      119, 46, 95, 120, 121, 95, 119, 115, 32, 61, 32>>)
        \o <<One(Quote3), Plus(Alnum), One(Quote3)>> \o Lits(<<59, 60, 47, 115, 99, 114, 105, 112, 116, 62>>)

\* the patterns in the order they are tried (matchIdx 0..5)
patterns == <<metaPattern, commentPattern, lkDbPattern, divPattern, noncePattern, wsPattern>>

\* "[a-zA-Z0-9]+"
keyRe == <<Lit(34), Plus(Alnum), Lit(34)>>

\* x:\s+"[a-zA-Z0-9]+" and the same for y and z
lkDbPart(name) == <<Lit(name), Lit(58), Plus(Space), Lit(34), Plus(Alnum), Lit(34)>>
lkDbParts == <<lkDbPart(120), lkDbPart(121), lkDbPart(122)>>

\* :[a-zA-Z0-9]+ followed by a space
commentKeyRe == <<Lit(58), Plus(Alnum), Lit(32)>>

\* strings.Trim(val, `"`) and strings.TrimSpace of a token without inner
\* quotes or spaces
NotQuote(c) == c # 34
TrimQuotes(val) == SelectSeq(val, NotQuote)
NotSpace(c) == c \notin {9, 10, 11, 12, 13, 32}
TrimSpace(val) == SelectSeq(val, NotSpace)

\* the index (from 0) of the first pattern that matches html, -1 when none does
matchIdxOf(html) ==
    LET hits == {k \in 1..Len(patterns) : FindString(patterns[k], html) # <<>>}
    IN  IF hits = {} THEN -1 ELSE (CHOOSE k \in hits : \A h \in hits : k <= h) - 1

\* case 2: the values of the parts x, y, z of match, or the error
lkDbKey(match) ==
    LET partMatch == [k \in 1..3 |-> FindString(lkDbParts[k], match)]
        val == [k \in 1..3 |-> FindString(keyRe, partMatch[k])]
    IN  IF \E k \in 1..3 : partMatch[k] = <<>>
        THEN [key |-> <<>>, err |-> "failed to build client key from lk_db pattern"]
        ELSE IF \E k \in 1..3 : val[k] = <<>>
        THEN [key |-> <<>>, err |-> "failed to extract value from lk_db part"]
        ELSE [key |-> TrimQuotes(val[1]) \o TrimQuotes(val[2]) \o TrimQuotes(val[3]),
              err |-> ""]

\* extractClientKey: the key and the error ("" for nil)
extractClientKey(html) ==
    LET matchIdx == matchIdxOf(html)
        match == FindString(patterns[matchIdx + 1], html)
    IN  IF matchIdx = -1
        THEN [key |-> <<>>, err |-> "failed to extract client key: no obfuscation pattern matched"]
        ELSE IF matchIdx = 1
        THEN (IF FindString(commentKeyRe, match) = <<>>
              THEN [key |-> <<>>, err |-> "failed to extract client key from comment pattern"]
              ELSE [key |-> TrimSpace(Tail(FindString(commentKeyRe, match))), err |-> ""])
        ELSE IF matchIdx = 2 THEN lkDbKey(match)
        ELSE IF FindString(keyRe, match) = <<>>
        THEN [key |-> <<>>, err |-> "failed to extract client key value"]
        ELSE [key |-> TrimQuotes(FindString(keyRe, match)), err |-> ""]

(***************************************************************************)
(* The forward transform of a layer, as the specification documents it     *)
(* (the encoder is not part of the repository).                            *)
(***************************************************************************)
\* forward symbol rotation: st = <<runes so far, seed>>
forwardShiftStep(st, ch, alphabet) ==
    LET idx == LastIndex(alphabet, ch)
        seed == seedRandStep(st[2])
        r == BigModSmall(seed, 95)
    IN  IF idx < 0 THEN <<Append(st[1], ch), st[2]>>
        ELSE <<Append(st[1], alphabet[((idx + r) % 95) + 1]), seed>>

RECURSIVE forwardShiftLoop(_, _, _, _, _)
forwardShiftLoop(text, st, lo, hi, alphabet) ==
    IF lo > hi THEN st
    ELSE IF lo = hi THEN forwardShiftStep(st, text[lo], alphabet)
    ELSE LET left == forwardShiftLoop(text, st, lo, Mid(lo, hi), alphabet)
         IN  Strict(left, forwardShiftLoop(text, left, Mid(lo, hi) + 1, hi, alphabet))

forwardShift(text, layerKey, alphabet) ==
    forwardShiftLoop(text, <<<<>>, seedHash(layerKey)>>, 1, Len(text), alphabet)[1]

\* the writer: the text row by row into a grid of len(layerKey) columns, the
\* unfilled trailing cells spaces, read column by column in sorted key order
forwardTranspose(text, layerKey) ==
    LET columnCount == Len(layerKey)
        rowCount == (Len(text) + columnCount - 1) \div columnCount
        sorted == sortedMap(layerKey)
    IN  IF columnCount = 0 THEN text
        ELSE [n \in 1..(rowCount * columnCount) |->
                LET k == ((n - 1) \div rowCount) + 1
                    row == (n - 1) % rowCount
                    cell == row * columnCount + sorted[k]
                IN  IF cell <= Len(text) THEN text[cell] ELSE 32]

\* forward substitution: alphabet[i] -> shuffled[i]
forwardSubstitute(text, layerKey, alphabet) ==
    LET shuffled == seedShuffle2(alphabet, layerKey).result
    IN  [n \in 1..Len(text) |->
            IF LastIndex(alphabet, text[n]) < 0 THEN text[n]
            ELSE shuffled[LastIndex(alphabet, text[n]) + 1]]

\* the documented forward transform: shift, then transposition, then substitution
forwardLayer(text, key, layer, alphabet) ==
    LET layerKey == key \o Itoa(layer)
    IN  forwardSubstitute(
            forwardTranspose(forwardShift(text, layerKey, alphabet), layerKey),
            layerKey, alphabet)

\* the same three steps in the opposite order: substitution, transposition, shift
forwardLayerOpposite(text, key, layer, alphabet) ==
    LET layerKey == key \o Itoa(layer)
    IN  forwardShift(
            forwardTranspose(forwardSubstitute(text, layerKey, alphabet), layerKey),
            layerKey, alphabet)

(***************************************************************************)
(* Inputs.                                                                 *)
(***************************************************************************)
\* Printable ASCII characters 32-126
Alphabet == [n \in 1..95 |-> 31 + n]

KeyK == <<107>>                                                \* "k"
KeyC == <<99>>                                                 \* "c"
KeyMega == <<109, 101, 103, 97, 107, 101, 121, 49, 50, 51>>    \* "megakey123"
KeyClient == <<99, 108, 105, 101, 110, 116, 107, 101, 121, 52, 53, 54>>  \* "clientkey456"
KeyBytes == <<195, 169, 255>>                                  \* "\xc3\xa9\xff"
KeySecret == <<115, 101, 99, 114, 101, 116>>                   \* "secret"
Key64 == [n \in 1..64 |-> 97 + ((n * 7) % 26)]
Key33 == [n \in 1..33 |-> 65 + ((n * 5) % 26)]
Key40 == [n \in 1..40 |-> 33 + ((n * 7) % 90)]

ServerKeys == {<<>>, KeyK, KeyMega, KeyBytes, Key64}
ClientKeys == {<<>>, KeyC, KeyClient, Key33}

\* payloads tried with every key pair
Payloads ==
    { <<>>,
      <<83, 71, 86, 115, 98, 71, 56, 61>>,        \* "SGVsbG8=": "Hello"
      <<47, 56, 79, 112, 81, 81, 111, 61>>,       \* "/8OpQQo=": ff c3 a9 41 0a
      <<65, 65, 33, 65>>,                         \* "AA!A"
      <<81, 81>> }                                \* "QQ"

\* payloads that decrypt, under the keys "k" and "c", to a text that starts
\* with "0002hi", "+002hi", "-001hi", "0099x", "00a1zz", "0000"
FramedShort ==
    { <<78, 71, 116, 90, 100, 87, 112, 100, 77, 72, 81, 61>>,
      <<78, 72, 66, 90, 100, 87, 112, 100, 77, 72, 81, 61>>,
      <<78, 70, 53, 90, 100, 87, 112, 100, 77, 67, 89, 61>>,
      <<78, 71, 116, 80, 89, 50, 112, 100, 97, 49, 48, 61>>,
      <<78, 71, 115, 103, 76, 50, 112, 100, 77, 105, 89, 61>>,
      <<77, 110, 77, 110, 102, 81, 61, 61>> }

\* payloads that decrypt, under the keys "megakey123" and "clientkey456", to
\* a text that starts with "0002hi", "-001hi", "0099x"
FramedLong ==
    { <<89, 68, 74, 115, 82, 49, 74, 105, 77, 48, 53, 52, 84, 122, 74, 57,
        75, 50, 70, 57, 90, 49, 104, 76, 83, 86, 56, 122, 75, 107, 89, 117,
        86, 88, 73, 113, 85, 68, 116, 70, 79, 83, 52, 53, 89, 87, 115, 61>>,
      <<89, 68, 74, 115, 82, 49, 74, 105, 77, 48, 53, 52, 84, 122, 74, 57,
        75, 50, 70, 57, 90, 49, 104, 76, 83, 83, 52, 122, 75, 107, 89, 117,
        86, 85, 107, 113, 85, 68, 116, 70, 79, 83, 52, 53, 89, 87, 115, 61>>,
      <<89, 68, 112, 115, 82, 49, 74, 105, 77, 48, 53, 52, 84, 122, 74, 100,
        75, 50, 70, 57, 90, 49, 104, 76, 83, 85, 119, 122, 75, 107, 89, 117,
        86, 88, 73, 113, 85, 68, 116, 70, 79, 84, 77, 53, 89, 87, 115, 61>> }

\* <<megacloudKey, clientKey, src>> of the decryptSrc2 calls
DecryptInputs ==
    (ServerKeys \X ClientKeys \X Payloads)
        \cup ({KeyK} \X {KeyC} \X FramedShort)
        \cup ({KeyMega} \X {KeyClient} \X FramedLong)

\* texts of the layer round trip: every text over TextSymbols of at most
\* MaxTextLen characters, and two longer ones
MaxTextLen == 2
TextSymbols == {32, 126}
TextsOfLen(n) == [1..n -> TextSymbols]
LongTexts ==
    { <<72, 101, 108, 108, 111, 44, 32, 87, 111, 114, 108, 100, 33, 33>>,  \* "Hello, World!!"
      [n \in 1..82 |-> 32 + ((n * 11) % 95)] }
RoundTripTexts == (UNION {TextsOfLen(n) : n \in 0..MaxTextLen}) \cup LongTexts
RoundTripKeys == {<<>>, KeyK, KeySecret, Key40}

\* the fragments the embed pages are made of
\* <meta name="_gg_fb" content="mK1">
metaTag ==
    <<60, 109, 101, 116, 97, 32, 110, 97, 109, 101, 61, 34, 95, 103, 103, 95,
      102, 98, 34, 32, 99, 111, 110, 116, 101, 110, 116, 61, 34, 109, 75, 49,
      34, 62>>
\* <!-- _is_th:cK2 -->
commentTag ==
    <<60, 33, 45, 45, 32, 95, 105, 115, 95, 116, 104, 58, 99, 75, 50, 32, 45,
      45, 62>>
\* <!--\t_is_th:cT2\t-->
commentTabs ==
    <<60, 33, 45, 45, 9, 95, 105, 115, 95, 116, 104, 58, 99, 84, 50, 9, 45,
      45, 62>>
\* <script>window._lk_db = {x: "P1", y: "P2", z: "P3"};</script>
lkDbXYZ ==
    <<60, 115, 99, 114, 105, 112, 116, 62, 119, 105, 110, 100, 111, 119, 46,
      95, 108, 107, 95, 100, 98, 32, 61, 32, 123, 120, 58, 32, 34, 80, 49,
      34, 44, 32, 121, 58, 32, 34, 80, 50, 34, 44, 32, 122, 58, 32, 34, 80,
      51, 34, 125, 59, 60, 47, 115, 99, 114, 105, 112, 116, 62>>
\* <script>window._lk_db = {y: "Q1", x: "Q2", z: "Q3"};</script>
lkDbYXZ ==
    <<60, 115, 99, 114, 105, 112, 116, 62, 119, 105, 110, 100, 111, 119, 46,
      95, 108, 107, 95, 100, 98, 32, 61, 32, 123, 121, 58, 32, 34, 81, 49,
      34, 44, 32, 120, 58, 32, 34, 81, 50, 34, 44, 32, 122, 58, 32, 34, 81,
      51, 34, 125, 59, 60, 47, 115, 99, 114, 105, 112, 116, 62>>
\* <script>window._lk_db = {x: 'R1', y: 'R2', z: 'R3'};</script>
lkDbSingle ==
    <<60, 115, 99, 114, 105, 112, 116, 62, 119, 105, 110, 100, 111, 119, 46,
      95, 108, 107, 95, 100, 98, 32, 61, 32, 123, 120, 58, 32, 39, 82, 49,
      39, 44, 32, 121, 58, 32, 39, 82, 50, 39, 44, 32, 122, 58, 32, 39, 82,
      51, 39, 125, 59, 60, 47, 115, 99, 114, 105, 112, 116, 62>>
\* <script>window._lk_db = {x: "S1", x: "S2", x: "S3"};</script>
lkDbXXX ==
    <<60, 115, 99, 114, 105, 112, 116, 62, 119, 105, 110, 100, 111, 119, 46,
      95, 108, 107, 95, 100, 98, 32, 61, 32, 123, 120, 58, 32, 34, 83, 49,
      34, 44, 32, 120, 58, 32, 34, 83, 50, 34, 44, 32, 120, 58, 32, 34, 83,
      51, 34, 125, 59, 60, 47, 115, 99, 114, 105, 112, 116, 62>>
\* <div data-dpi="dK4" class="t"></div>
divTag ==
    <<60, 100, 105, 118, 32, 100, 97, 116, 97, 45, 100, 112, 105, 61, 34,
      100, 75, 52, 34, 32, 99, 108, 97, 115, 115, 61, 34, 116, 34, 62, 60,
      47, 100, 105, 118, 62>>
\* <script nonce="nK5">
nonceTag ==
    <<60, 115, 99, 114, 105, 112, 116, 32, 110, 111, 110, 99, 101, 61, 34,
      110, 75, 53, 34, 62>>
\* <script>window._xy_ws = "wK6";</script>
wsScript ==
    <<60, 115, 99, 114, 105, 112, 116, 62, 119, 105, 110, 100, 111, 119, 46,
      95, 120, 121, 95, 119, 115, 32, 61, 32, 34, 119, 75, 54, 34, 59, 60,
      47, 115, 99, 114, 105, 112, 116, 62>>
\* <script>window._xy_ws = 'wS6';</script>
wsSingle ==
    <<60, 115, 99, 114, 105, 112, 116, 62, 119, 105, 110, 100, 111, 119, 46,
      95, 120, 121, 95, 119, 115, 32, 61, 32, 39, 119, 83, 54, 39, 59, 60,
      47, 115, 99, 114, 105, 112, 116, 62>>
\* <body>nothing here</body>
plainBody ==
    <<60, 98, 111, 100, 121, 62, 110, 111, 116, 104, 105, 110, 103, 32, 104,
      101, 114, 101, 60, 47, 98, 111, 100, 121, 62>>

Fragments ==
    <<metaTag, commentTag, commentTabs, lkDbXYZ, lkDbYXZ, lkDbSingle, lkDbXXX,
      divTag, nonceTag, wsScript, wsSingle, plainBody>>

RECURSIVE Concat(_, _, _)
\* the fragments order[lo] .. order[hi] one after the other
Concat(order, lo, hi) ==
    IF lo > hi THEN <<>>
    ELSE Fragments[order[lo]] \o Concat(order, lo + 1, hi)

\* the embed pages: "<html>", at most MaxFragments different fragments in any
\* order, "</html>"
MaxFragments == 2
FragmentOrders ==
    UNION {{order \in [1..n -> 1..Len(Fragments)] :
                \A a, b \in 1..n : a # b => order[a] # order[b]}
           : n \in 0..MaxFragments}
PageOf(order) ==
    <<60, 104, 116, 109, 108, 62>> \o Concat(order, 1, Len(order))
        \o <<60, 47, 104, 116, 109, 108, 62>>

\* <<megacloudKey, clientKey>> of the repeated keygen2 calls
MaxCalls == 3
CallPairs == {<<KeyMega, KeyClient>>, <<KeyK, KeyC>>, <<<<>>, KeyC>>, <<KeyK, KeyBytes>>}

\* the standard base64 encoding of the bytes b, with its '=' padding
StdEncode(b) ==
    LET byte(k) == IF k <= Len(b) THEN b[k] ELSE 0
    IN  [p \in 1..(4 * ((Len(b) + 2) \div 3)) |->
            LET g == (p - 1) \div 4
                j == (p - 1) % 4
                b0 == byte(3 * g + 1)
                b1 == byte(3 * g + 2)
                b2 == byte(3 * g + 3)
                v == CASE j = 0 -> b0 \div 4
                       [] j = 1 -> (b0 % 4) * 16 + (b1 \div 16)
                       [] j = 2 -> (b1 % 16) * 4 + (b2 \div 64)
                       [] j = 3 -> b2 % 64
            IN  IF (j = 2 /\ 3 * g + 2 > Len(b)) \/ (j = 3 /\ 3 * g + 3 > Len(b))
                THEN 61
                ELSE base64Chars[v + 1]]

\* the encoding without its padding
NotPad(c) == c # 61
StdEncodeUnpadded(b) == SelectSeq(StdEncode(b), NotPad)

\* the byte sequences given to the encoder: all of at most MaxBytesLen bytes
\* over ByteSymbols
MaxBytesLen == 3
ByteSymbols == {0, 72, 251, 255}
ByteSeqs == UNION {[1..n -> ByteSymbols] : n \in 0..MaxBytesLen}

\* atob inputs that are no encodings: all of at most MaxSymbolsLen symbols
\* over 'A', '/', '!', '=', and three with whitespace and non-ASCII runes
MaxSymbolsLen == 4
RawSymbols == {65, 47, 33, 61}
RawInputs ==
    (UNION {[1..n -> RawSymbols] : n \in 0..MaxSymbolsLen})
        \cup { <<83, 71, 86, 115, 10, 98, 71, 56, 61>>,     \* "SGVs\nbG8="
               <<81, 197, 129, 255, 81>>,                   \* "QŁ\xffQ"
               <<81, 32, 81, 13, 33, 33, 81, 81>> }        \* "Q Q\r!!QQ"

\* inputs of the direct columnarCipher2 calls
ColumnarTexts ==
    RoundTripTexts \cup {<<0, 200, 10, 32, 65>>, <<195, 169, 32, 32>>}
ColumnarKeys == {<<>>, KeyK, KeySecret}

(***************************************************************************)
(* Extract: the values the servers can answer with.  A JSON value is its   *)
(* kind and content; a map[string]string is the set of its entries.        *)
(***************************************************************************)
\* 720
Quality720 == <<55, 50, 48>>

\* 1080
Quality1080 == <<49, 48, 56, 48>>

\* v360
FileV360 == <<118, 51, 54, 48>>

\* v720
FileV720 == <<118, 55, 50, 48>>

\* w720
FileW720 == <<119, 55, 50, 48>>

\* m1
FileM1 == <<109, 49>>

\* m2
FileM2 == <<109, 50>>

\* hls
TypeHls == <<104, 108, 115>>

\* mp4
TypeMp4 == <<109, 112, 52>>

\* en.vtt
SubEn == <<101, 110, 46, 118, 116, 116>>

\* fr.vtt
SubFr == <<102, 114, 46, 118, 116, 116>>

\* English
LabelEn == <<69, 110, 103, 108, 105, 115, 104>>

\* French
LabelFr == <<70, 114, 101, 110, 99, 104>>

\* k2
KeyK2 == <<107, 50>>

\* x
KeyX == <<120>>

\* [{"file":"v720"}]
TextV720 ==
    <<91, 123, 34, 102, 105, 108, 101, 34, 58, 34, 118, 55, 50, 48, 34, 125,
      93>>

\* []
TextEmpty == <<91, 93>>

\* the text 0017[{"file":"v720"}] under the keys mK1 and k
PayloadV720 ==
    <<74, 71, 70, 118, 98, 49, 85, 52, 80, 85, 53, 66, 75, 48, 108, 48, 99,
      121, 89, 47, 79, 107, 74, 55, 87, 107, 53, 78, 98, 68, 49, 100>>

\* the text 0002[] under the keys mK1 and k
PayloadEmptyList == <<79, 109, 100, 88, 83, 86, 66, 116, 85, 85, 111, 61>>

\* the text 0002hi under the keys mK1 and k
PayloadNotJSON == <<79, 109, 100, 88, 83, 86, 78, 116, 97, 107, 111, 61>>

\* the text -001hi under the keys mK1 and k
PayloadNegative == <<79, 109, 100, 88, 101, 70, 78, 97, 97, 107, 111, 61>>

\* /embed-1/v3/e-1/AbCdEf
PathEmbed ==
    <<47, 101, 109, 98, 101, 100, 45, 49, 47, 118, 51, 47, 101, 45, 49, 47,
      65, 98, 67, 100, 69, 102>>

\* /
PathRoot == <<47>>

\* embed-
EmbedDash == <<101, 109, 98, 101, 100, 45>>

\* embed-2
Embed2 == <<101, 109, 98, 101, 100, 45, 50>>

\* h.site
HostSite == <<104, 46, 115, 105, 116, 101>>


\* the embed URLs, as url.Parse splits them
EmbedURLs ==
    {[Scheme |-> "https", Host |-> HostSite, Path |-> PathEmbed],
     [Scheme |-> "http", Host |-> HostSite, Path |-> PathEmbed],
     [Scheme |-> "https", Host |-> <<>>, Path |-> PathEmbed],
     [Scheme |-> "", Host |-> <<>>, Path |-> <<>>],
     [Scheme |-> "https", Host |-> HostSite, Path |-> PathRoot]}

Qualities == {Quality720, Quality1080}

\* the path segments the embed URLs of a direct parseEmbedURL call are made of:
\* embed-1, embed-12, embed-, embed-1x, xembed-1, AbCdEf and the empty segment
PathSegments ==
    {<<101, 109, 98, 101, 100, 45, 49>>,
     <<101, 109, 98, 101, 100, 45, 49, 50>>,
     <<101, 109, 98, 101, 100, 45>>,
     <<101, 109, 98, 101, 100, 45, 49, 120>>,
     <<120, 101, 109, 98, 101, 100, 45, 49>>,
     <<65, 98, 67, 100, 69, 102>>,
     <<>>}

MaxSegments == 3

RECURSIVE JoinSlash(_)
JoinSlash(segments) ==
    IF Len(segments) = 1
    THEN segments[1]
    ELSE segments[1] \o <<47>> \o JoinSlash(Tail(segments))

\* u.Path of a URL with these segments; no segment, no path
PathOf(segments) == IF segments = <<>> THEN <<>> ELSE <<47>> \o JoinSlash(segments)

ParseURLs ==
    {[Scheme |-> "https", Host |-> HostSite, Path |-> PathOf(segments)] :
        segments \in UNION {[1..n -> PathSegments] : n \in 0..MaxSegments}}

JSONMissing == [kind |-> "missing", str |-> <<>>, list |-> <<>>]

JSONNull == [kind |-> "null", str |-> <<>>, list |-> <<>>]

JSONString(s) == [kind |-> "string", str |-> s, list |-> <<>>]

JSONArray(l) == [kind |-> "array", str |-> <<>>, list |-> l]

\* a source entry, a missing field being the empty string
Source(file, type) == [File |-> file, Type |-> type]

Track(file, label, kind) == [File |-> file, Label |-> label, Kind |-> kind]

SourcesByFile == <<Source(FileV360, TypeHls), Source(FileV720, TypeHls), Source(FileW720, TypeMp4)>>

SourcesByType == <<Source(FileM1, TypeHls), Source(FileM2, Quality720)>>

TracksMixed ==
    <<Track(SubEn, LabelEn, "captions"), Track(SubFr, LabelFr, "thumbnails"),
      Track(<<>>, LabelFr, "captions"), Track(SubFr, LabelFr, "captions")>>

\* a getSources body that json.Unmarshal accepts as a sourcesResponse
SourcesBody(sources, tracks, encrypted) ==
    [valid |-> TRUE, sources |-> sources, tracks |-> tracks, encrypted |-> encrypted]

\* a body that is not JSON
NotJSON == [valid |-> FALSE, sources |-> JSONMissing, tracks |-> <<>>, encrypted |-> FALSE]

SourcesBodies ==
    {SourcesBody(JSONArray(SourcesByFile), TracksMixed, FALSE),
     SourcesBody(JSONArray(SourcesByType), TracksMixed, FALSE),
     SourcesBody(JSONArray(<<>>), <<>>, FALSE),
     SourcesBody(JSONNull, <<>>, FALSE),
     SourcesBody(JSONMissing, <<>>, FALSE),
     SourcesBody(JSONString(PayloadV720), <<>>, FALSE),
     SourcesBody(JSONString(PayloadV720), TracksMixed, TRUE),
     SourcesBody(JSONString(PayloadEmptyList), <<>>, TRUE),
     SourcesBody(JSONString(PayloadNotJSON), <<>>, TRUE),
     SourcesBody(JSONString(PayloadNegative), <<>>, TRUE),
     SourcesBody(JSONString(<<>>), <<>>, TRUE),
     SourcesBody(JSONNull, <<>>, TRUE),
     SourcesBody(JSONArray(SourcesByFile), <<>>, TRUE),
     NotJSON}

\* the embed pages
EmbedPages == {metaTag, plainBody}

\* the key feed's bodies: objects of string values
FeedWith(entries) == [valid |-> TRUE, entries |-> entries]

FeedNotJSON == [valid |-> FALSE, entries |-> {}]

FeedMegaK == FeedWith({<<"mega", KeyK>>})

FeedMegaK2 == FeedWith({<<"mega", KeyK2>>, <<"other", KeyX>>})

FeedOther == FeedWith({<<"other", KeyX>>})

Feeds == {FeedMegaK, FeedMegaK2, FeedOther}

\* a map[string]string: nil, or its entries
NilMap == [nil |-> TRUE, entries |-> {}]

MapOf(entries) == [nil |-> FALSE, entries |-> entries]

HasKey(m, name) == \E p \in m.entries : p[1] = name

Lookup(m, name) == (CHOOSE p \in m.entries : p[1] = name)[2]

\* strings.Contains(s, substr)
Contains(s, substr) ==
    \E k \in 0..(Len(s) - Len(substr)) : SubSeq(s, k + 1, k + Len(substr)) = substr

\* strings.Split(s, "/")
RECURSIVE SplitSlash(_)
SplitSlash(s) ==
    IF \A k \in 1..Len(s) : s[k] # 47
    THEN <<s>>
    ELSE LET at == CHOOSE k \in 1..Len(s) :
                      s[k] = 47 /\ \A j \in 1..(k - 1) : s[j] # 47
         IN  <<SubSeq(s, 1, at - 1)>> \o SplitSlash(SubSeq(s, at + 1, Len(s)))

\* strings.TrimPrefix(s, "/")
TrimSlash(s) == IF s # <<>> /\ s[1] = 47 THEN Tail(s) ELSE s

\* regexp `^embed-\d+$`
IsEmbedPrefix(s) ==
    /\ Len(s) > Len(EmbedDash)
    /\ SubSeq(s, 1, Len(EmbedDash)) = EmbedDash
    /\ \A k \in (Len(EmbedDash) + 1)..Len(s) : IsDigit(s[k])

\* ValidateURL that accepts every URL
ValidateURLSkipped(u) == ""

\* httputil.ValidateURL: "" or the error
ValidateURL(u) ==
    IF u.Scheme # "https" THEN "URL must use HTTPS"
    ELSE IF u.Host = <<>> THEN "URL has no host"
    ELSE ""

parseEmbedURL(u) ==
    LET parts == SplitSlash(TrimSlash(u.Path))
        last == parts[Len(parts)]
        sourceID == IF last = <<>> /\ Len(parts) > 1 THEN parts[Len(parts) - 1] ELSE last
    IN  IF sourceID = <<>>
        THEN [domain |-> <<>>, embedPrefix |-> <<>>, sourceID |-> <<>>,
              err |-> "could not extract source ID"]
        ELSE [domain |-> u.Host,
              embedPrefix |-> IF IsEmbedPrefix(parts[1]) THEN parts[1] ELSE Embed2,
              sourceID |-> sourceID,
              err |-> ""]

\* json.Unmarshal(resp.Sources, &encryptedSrc): a string, or null which leaves ""
unmarshalString(v) ==
    IF v.kind = "string" THEN [value |-> v.str, err |-> ""]
    ELSE IF v.kind = "null" THEN [value |-> <<>>, err |-> ""]
    ELSE [value |-> <<>>, err |-> "cannot unmarshal"]

\* json.Unmarshal(resp.Sources, &sources): an array, or null which leaves nil
unmarshalSources(v) ==
    IF v.kind = "array" THEN [value |-> v.list, err |-> ""]
    ELSE IF v.kind = "null" THEN [value |-> <<>>, err |-> ""]
    ELSE [value |-> <<>>, err |-> "cannot unmarshal"]

\* json.Unmarshal([]byte(decrypted), &sources) on the texts the payloads hold;
\* no other text decryptSrc2 returns for them is JSON
unmarshalText(decrypted) ==
    IF decrypted = TextV720 THEN [value |-> <<Source(FileV720, <<>>)>>, err |-> ""]
    ELSE IF decrypted = TextEmpty THEN [value |-> <<>>, err |-> ""]
    ELSE [value |-> <<>>, err |-> "invalid character"]

\* Extract, step 6: the file of the first source whose File contains the quality
RECURSIVE selectURL(_, _, _)
selectURL(sources, preferredQuality, n) ==
    IF n > Len(sources) THEN sources[1].File
    ELSE IF Contains(sources[n].File, preferredQuality) THEN sources[n].File
    ELSE selectURL(sources, preferredQuality, n + 1)

\* step 7 without its filter: a descriptor for every track
RECURSIVE mapSubtitlesUnfiltered(_, _)
mapSubtitlesUnfiltered(tracks, n) ==
    IF n = 0 THEN <<>>
    ELSE Append(mapSubtitlesUnfiltered(tracks, n - 1),
                [Language |-> tracks[n].Label, Label |-> tracks[n].Label,
                 URL |-> tracks[n].File])

\* Extract, step 7: the captions tracks that have a file
RECURSIVE mapSubtitles(_, _)
mapSubtitles(tracks, n) ==
    IF n = 0 THEN <<>>
    ELSE LET t == tracks[n]
             rest == mapSubtitles(tracks, n - 1)
         IN  IF t.Kind # "captions" \/ t.File = <<>>
             THEN rest
             ELSE Append(rest, [Language |-> t.Label, Label |-> t.Label, URL |-> t.File])

NumGoroutines == 2

Goroutines == 1..NumGoroutines

MaxExtracts == 2

MaxKeyCalls == 3


(***************************************************************************)
(* The watch history: a file of tab-separated lines, one per entry.  A     *)
(* float64 of the entries is a number of half seconds, so that a position  *)
(* between two whole seconds exists.                                       *)
(***************************************************************************)
Movie == 0

TV == 1

numColumns == 7

\* MediaType.String()
MediaTypeString(m) ==
    IF m = Movie THEN <<109, 111, 118, 105, 101>>
    ELSE IF m = TV THEN <<116, 118>>
    ELSE <<117, 110, 107, 110, 111, 119, 110>>

\* strconv.FormatFloat(f, 'f', 0, 64), f being halves/2: the nearest whole
\* number, the even one of the two when f is half-way
FormatFloat(halves) ==
    LET whole == halves \div 2
    IN  Itoa(IF halves % 2 = 0 THEN whole
             ELSE IF whole % 2 = 0 THEN whole
             ELSE whole + 1)

\* strconv.ParseFloat on a text of digits, in halves; 0 on any other text here
ParseFloat(s) == IF AtoiOk(s) THEN 2 * AtoiValue(s) ELSE 0

\* n, _ := strconv.Atoi(s)
AtoiOrZero(s) == IF AtoiOk(s) THEN AtoiValue(s) ELSE 0

\* strings.Split(s, sep), sep one byte
RECURSIVE SplitOn(_, _)
SplitOn(s, sep) ==
    IF \A k \in 1..Len(s) : s[k] # sep
    THEN <<s>>
    ELSE LET at == CHOOSE k \in 1..Len(s) :
                      s[k] = sep /\ \A j \in 1..(k - 1) : s[j] # sep
         IN  <<SubSeq(s, 1, at - 1)>> \o SplitOn(SubSeq(s, at + 1, Len(s)), sep)

HistoryEntry(id, title, type, season, episode, position, duration) ==
    [ID |-> id, Title |-> title, Type |-> type, Season |-> season,
     Episode |-> episode, Position |-> position, Duration |-> duration]

NoEntry == HistoryEntry(<<>>, <<>>, Movie, 0, 0, 0, 0)

formatLine(e) ==
    e.ID \o <<9>> \o e.Title \o <<9>> \o MediaTypeString(e.Type) \o <<9>>
        \o Itoa(e.Season) \o <<9>> \o Itoa(e.Episode) \o <<9>>
        \o FormatFloat(e.Position) \o <<9>> \o FormatFloat(e.Duration)

parseLine(line) ==
    LET fields == SplitOn(line, 9)
    IN  IF Len(fields) < numColumns
        THEN [entry |-> NoEntry, err |-> "expected 7 columns"]
        ELSE [entry |-> HistoryEntry(fields[1], fields[2],
                                     IF fields[3] = MediaTypeString(TV) THEN TV ELSE Movie,
                                     AtoiOrZero(fields[4]), AtoiOrZero(fields[5]),
                                     ParseFloat(fields[6]), ParseFloat(fields[7])),
              err |-> ""]

\* Load's scanner loop over the first n lines
RECURSIVE LoadLines(_, _)
LoadLines(lines, n) ==
    IF n = 0 THEN <<>>
    ELSE LET line == lines[n]
             rest == LoadLines(lines, n - 1)
         IN  IF line = <<>> \/ line[1] = 35 THEN rest
             ELSE IF parseLine(line).err # "" THEN rest
             ELSE Append(rest, parseLine(line).entry)

\* Load(): no file, no entries
Load(f) == IF ~f.exists THEN <<>> ELSE LoadLines(f.lines, Len(f.lines))

SameKey(e, id, season, episode) ==
    e.ID = id /\ e.Season = season /\ e.Episode = episode

\* Save: update the first entry of that key, or append
RECURSIVE saveEntries(_, _, _)
saveEntries(entries, entry, n) ==
    IF n > Len(entries) THEN Append(entries, entry)
    ELSE IF SameKey(entries[n], entry.ID, entry.Season, entry.Episode)
    THEN [entries EXCEPT ![n] = entry]
    ELSE saveEntries(entries, entry, n + 1)

\* Remove: the entries of another key
removeEntries(entries, id, season, episode) ==
    SelectSeq(entries, LAMBDA e : ~SameKey(e, id, season, episode))

\* the lines written to the temp file
WriteLines(entries) == [n \in 1..Len(entries) |-> formatLine(entries[n])]

\* a, b, #c and T
IdA == <<97>>

IdB == <<98>>

IdHash == <<35, 99>>

TitleT == <<84>>

\* the entries saved: a movie at 1 s, then at 2 s, then at 2.5 s; the episodes
\* 1 and 2 of a show; an entry whose id begins with #
SavedEntries ==
    {HistoryEntry(IdA, TitleT, Movie, 0, 0, 2, 8),
     HistoryEntry(IdA, TitleT, Movie, 0, 0, 4, 8),
     HistoryEntry(IdA, TitleT, Movie, 0, 0, 5, 8),
     HistoryEntry(IdB, TitleT, TV, 1, 1, 0, 6),
     HistoryEntry(IdB, TitleT, TV, 1, 2, 0, 6),
     HistoryEntry(IdHash, TitleT, Movie, 0, 0, 2, 8)}

MaxHistoryOps == 3

NumProcs == 3

Procs == 1..NumProcs

(***************************************************************************)
(* The state machine: one call of decryptSrc2 (mode "decrypt"), one round  *)
(* trip of a layer (mode "layer"), one seedShuffle2 call (mode "shuffle"), *)
(* or a sequence of keygen2 calls (mode "keygen").                         *)
(***************************************************************************)
VARIABLES
    mode,          \* which entry point this run exercises
    pc,            \* position in the entry point
    panic,         \* "" or the run-time panic that ended the call
    megacloudKey, clientKey, src,   \* arguments of decryptSrc2
    genKey,        \* decryptSrc2: genKey
    keygenVals,    \* keygen2's hashVal, lHashInt, pivot, limit of that call
    decSrc,        \* decryptSrc2: decSrc
    i,             \* decryptSrc2: the layer loop's i
    charArray,     \* the shared alphabet
    subValues,     \* reverseLayer: subValues of the last layer run
    layerLog,      \* the reverseLayer calls made so far, in order
    result,        \* decryptSrc2's return value
    text, key, layer, order,   \* round trip: arguments and forward step order
    encoded,       \* round trip: the forward transform of text
    decoded,       \* round trip: reverseLayer of encoded
    keygenLog      \* the keygen2 calls made so far, in order

cipherVars == <<mode, pc, panic, megacloudKey, clientKey, src, genKey, keygenVals,
                decSrc, i, charArray, subValues, layerLog, result, text, key,
                layer, order, encoded, decoded, keygenLog>>

\* extractClientKey called alone
VARIABLES
    pageOrder,     \* the fragments html is made of, in their order
    html,          \* extractClientKey: html
    extracted      \* extractClientKey: the returned key and error, once returned

clientKeyVars == <<pageOrder, html, extracted>>

\* one extractor: its key cache, and the getMegacloudKey calls on it
VARIABLES
    keys,          \* m.keys
    keysMu,        \* m.keysMu: 0, or the goroutine that holds it
    getKey,        \* per goroutine, its getMegacloudKey call
    feed,          \* what the key feed serves now
    requests,      \* the requests sent, in order
    keyCalls       \* the getMegacloudKey calls started

cacheVars == <<keys, keysMu, getKey, feed, requests, keyCalls>>

\* Extract called on that extractor, by goroutine 1
VARIABLES
    call,          \* Extract's arguments, locals, position and outcome
    extracts       \* the Extract calls started

extractVars == <<call, extracts>>

\* the history file and the processes that call Save, Remove and Load
VARIABLES
    file,          \* the history file: whether it exists, and its lines
    hist,          \* per process, its call: position, arguments and locals
    histOps        \* the calls started

historyVars == <<file, hist, histOps>>

vars == <<cipherVars, clientKeyVars, cacheVars, extractVars, historyVars>>

NoFile == [exists |-> FALSE, lines |-> <<>>]

\* no call running; before is the file as the call found it
NoHistCall == [pc |-> "idle", op |-> "", entry |-> NoEntry, entries |-> <<>>,
               tmp |-> <<>>, before |-> NoFile]

HistoryIdle ==
    /\ file = NoFile
    /\ hist = [p \in Procs |-> NoHistCall]
    /\ histOps = 0

\* getMegacloudKey not running in a goroutine; hit and atCall describe a call:
\* whether it found the key cached, and whether the key was cached when it began
NoKeyCall == [pc |-> "idle", key |-> <<>>, err |-> "", body |-> FeedNotJSON,
              hit |-> FALSE, sent |-> 0, atCall |-> FALSE]

NoStream == [URL |-> <<>>, Subtitles |-> <<>>, Quality |-> <<>>]

NoResp == [Sources |-> JSONMissing, Tracks |-> <<>>, Encrypted |-> FALSE]

NoURL == [Scheme |-> "", Host |-> <<>>, Path |-> <<>>]

\* Extract not running
NoCall ==
    [pc |-> "idle", embedURL |-> NoURL, preferredQuality |-> <<>>,
     domain |-> <<>>, embedPrefix |-> <<>>, sourceID |-> <<>>,
     embedHTML |-> <<>>, clientKey |-> <<>>, body |-> NotJSON, resp |-> NoResp,
     encryptedSrc |-> <<>>, megaKey |-> <<>>, decrypted |-> <<>>,
     sources |-> <<>>, stream |-> NoStream, returned |-> "", err |-> "",
     panic |-> ""]

CacheIdle ==
    /\ keys = NilMap
    /\ keysMu = 0
    /\ getKey = [g \in Goroutines |-> NoKeyCall]
    /\ feed = FeedMegaK
    /\ requests = <<>>
    /\ keyCalls = 0

ExtractIdle == call = NoCall /\ extracts = 0

\* no call made
NotCalled == [key |-> <<>>, err |-> "not called"]

\* the variables of the entry points that a run does not exercise
ClientKeyIdle == pageOrder = <<>> /\ html = <<>> /\ extracted = NotCalled

NoVals == [hashVal |-> <<>>, lHash |-> <<>>, lHashInt |-> <<>>, pivot |-> 0, limit |-> 0]

Blank ==
    /\ panic = ""
    /\ genKey = <<>>
    /\ keygenVals = NoVals
    /\ decSrc = <<>>
    /\ i = 0
    /\ charArray = Alphabet
    /\ subValues = <<>>
    /\ layerLog = <<>>
    /\ result = <<>>
    /\ encoded = <<>>
    /\ decoded = <<>>
    /\ keygenLog = <<>>

InitDecrypt ==
    /\ mode = "decrypt"
    /\ pc = "keygen"
    /\ \E input \in DecryptInputs :
          /\ megacloudKey = input[1]
          /\ clientKey = input[2]
          /\ src = input[3]
    /\ text = <<>> /\ key = <<>> /\ layer = 0 /\ order = ""
    /\ Blank

InitLayer ==
    /\ mode = "layer"
    /\ pc = "forward"
    /\ text \in RoundTripTexts
    /\ key \in RoundTripKeys
    /\ layer \in 1..layers
    /\ order \in {"documented", "opposite"}
    /\ megacloudKey = <<>> /\ clientKey = <<>> /\ src = <<>>
    /\ Blank

InitShuffle ==
    /\ mode = "shuffle"
    /\ pc = "shuffle"
    /\ key \in RoundTripKeys \cup {KeyMega}
    /\ text = <<>> /\ layer = 0 /\ order = ""
    /\ megacloudKey = <<>> /\ clientKey = <<>> /\ src = <<>>
    /\ Blank

InitKeygen ==
    /\ mode = "keygen"
    /\ pc = "call"
    /\ text = <<>> /\ key = <<>> /\ layer = 0 /\ order = ""
    /\ megacloudKey = <<>> /\ clientKey = <<>> /\ src = <<>>
    /\ Blank

\* atob(src), src the encoding of the bytes in text (order: with or without
\* padding) or a raw input
InitAtob ==
    /\ mode = "atob"
    /\ pc = "call"
    /\ \/ \E b \in ByteSeqs :
             /\ text = b
             /\ \/ order = "padded" /\ src = StdEncode(b)
                \/ order = "unpadded" /\ src = StdEncodeUnpadded(b)
       \/ /\ text = <<>>
          /\ order = "raw"
          /\ src \in RawInputs
    /\ key = <<>> /\ layer = 0
    /\ megacloudKey = <<>> /\ clientKey = <<>>
    /\ Blank

\* columnarCipher2(text, key)
InitColumnar ==
    /\ mode = "columnar"
    /\ pc = "call"
    /\ text \in ColumnarTexts
    /\ key \in ColumnarKeys
    /\ layer = 0 /\ order = ""
    /\ megacloudKey = <<>> /\ clientKey = <<>> /\ src = <<>>
    /\ Blank

Init ==
    /\ \/ InitDecrypt
       \/ InitLayer
       \/ InitShuffle
       \/ InitKeygen
       \/ InitAtob
       \/ InitColumnar
    /\ ClientKeyIdle
    /\ CacheIdle
    /\ ExtractIdle
    /\ HistoryIdle

\* keygen2's intermediate values
KeygenValsOf(mk, ck) ==
    LET hashVal == keygenHash(mk \o ck)
        lHash == keygenLHash(hashVal)
        lHashInt == keygenLHashInt(lHash)
    IN  [hashVal |-> hashVal,
         lHash |-> lHash,
         lHashInt |-> lHashInt,
         pivot |-> keygenPivot(lHashInt, Len(mk \o ck)),
         limit |-> keygenLimit(lHashInt)]

\* decryptSrc2: genKey := keygen2(megacloudKey, clientKey)
Keygen ==
    /\ mode = "decrypt" /\ pc = "keygen"
    /\ IF Len(megacloudKey \o clientKey) = 0
       THEN /\ pc' = "panic"
            /\ panic' = "integer divide by zero"
            /\ UNCHANGED <<genKey, keygenVals>>
       ELSE /\ pc' = "atob"
            /\ genKey' = keygen2(megacloudKey, clientKey)
            /\ keygenVals' = KeygenValsOf(megacloudKey, clientKey)
            /\ UNCHANGED panic
    /\ UNCHANGED <<mode, megacloudKey, clientKey, src, decSrc, i, charArray,
                   subValues, layerLog, result, text, key, layer, order,
                   encoded, decoded, keygenLog>>
    /\ UNCHANGED <<clientKeyVars, cacheVars, extractVars, historyVars>>

\* decryptSrc2: decSrc := atob(src), charArray, and the loop's i := layers
Atob ==
    /\ mode = "decrypt" /\ pc = "atob"
    /\ decSrc' = atob(src)
    /\ charArray' = [n \in 1..95 |-> 32 + (n - 1)]
    /\ i' = layers
    /\ pc' = "layers"
    /\ UNCHANGED <<mode, panic, megacloudKey, clientKey, src, genKey,
                   keygenVals, subValues, layerLog, result, text, key, layer,
                   order, encoded, decoded, keygenLog>>
    /\ UNCHANGED <<clientKeyVars, cacheVars, extractVars, historyVars>>

\* decryptSrc2: one iteration of the layer loop
ReverseLayer ==
    /\ mode = "decrypt" /\ pc = "layers" /\ i > 0
    /\ LET r == reverseLayer(decSrc, genKey, i, charArray)
       IN  /\ decSrc' = r.out
           /\ charArray' = r.charArray
           /\ subValues' = r.subValues
           /\ layerLog' = Append(layerLog, r)
    /\ i' = i - 1
    /\ pc' = IF i - 1 > 0 THEN "layers" ELSE "frame"
    /\ UNCHANGED <<mode, panic, megacloudKey, clientKey, src, genKey,
                   keygenVals, result, text, key, layer, order, encoded,
                   decoded, keygenLog>>
    /\ UNCHANGED <<clientKeyVars, cacheVars, extractVars, historyVars>>

\* decryptSrc2: Extract data, the first 4 chars are the length
Frame ==
    /\ mode = "decrypt" /\ pc = "frame"
    /\ IF Len(decSrc) < 4
       THEN pc' = "done" /\ result' = <<>> /\ UNCHANGED panic
       ELSE IF ~AtoiOk(SubSeq(decSrc, 1, 4))
                \/ 4 + AtoiValue(SubSeq(decSrc, 1, 4)) > Len(decSrc)
       THEN pc' = "done" /\ result' = <<>> /\ UNCHANGED panic
       ELSE IF 4 + AtoiValue(SubSeq(decSrc, 1, 4)) < 4
       THEN pc' = "panic" /\ panic' = "slice bounds out of range" /\ UNCHANGED result
       ELSE /\ pc' = "done"
            /\ result' = SubSeq(decSrc, 5, 4 + AtoiValue(SubSeq(decSrc, 1, 4)))
            /\ UNCHANGED panic
    /\ UNCHANGED <<mode, megacloudKey, clientKey, src, genKey, keygenVals,
                   decSrc, i, charArray, subValues, layerLog, text, key,
                   layer, order, encoded, decoded, keygenLog>>
    /\ UNCHANGED <<clientKeyVars, cacheVars, extractVars, historyVars>>

\* round trip: the forward transform of text, its three steps in `order`
ForwardLayer ==
    /\ mode = "layer" /\ pc = "forward"
    /\ encoded' = IF order = "documented"
                  THEN forwardLayer(text, key, layer, charArray)
                  ELSE forwardLayerOpposite(text, key, layer, charArray)
    /\ pc' = "reverse"
    /\ UNCHANGED <<mode, panic, megacloudKey, clientKey, src, genKey,
                   keygenVals, decSrc, i, charArray, subValues, layerLog,
                   result, text, key, layer, order, decoded, keygenLog>>
    /\ UNCHANGED <<clientKeyVars, cacheVars, extractVars, historyVars>>

\* round trip: reverseLayer(encoded, key, layer, charArray)
ReverseBack ==
    /\ mode = "layer" /\ pc = "reverse"
    /\ LET r == reverseLayer(encoded, key, layer, charArray)
       IN  /\ decoded' = r.out
           /\ charArray' = r.charArray
           /\ subValues' = r.subValues
    /\ pc' = "done"
    /\ UNCHANGED <<mode, panic, megacloudKey, clientKey, src, genKey,
                   keygenVals, decSrc, i, layerLog, result, text, key, layer,
                   order, encoded, keygenLog>>
    /\ UNCHANGED <<clientKeyVars, cacheVars, extractVars, historyVars>>

\* seedShuffle2(charArray, key)
SeedShuffle ==
    /\ mode = "shuffle" /\ pc = "shuffle"
    /\ LET r == seedShuffle2(charArray, key)
       IN  /\ subValues' = r.result
           /\ charArray' = r.charArray
    /\ pc' = "done"
    /\ UNCHANGED <<mode, panic, megacloudKey, clientKey, src, genKey,
                   keygenVals, decSrc, i, layerLog, result, text, key, layer,
                   order, encoded, decoded, keygenLog>>
    /\ UNCHANGED <<clientKeyVars, cacheVars, extractVars, historyVars>>

\* fault variant of KeygenCall: the key depends on the number of earlier calls
KeygenCallCounting ==
    /\ mode = "keygen" /\ pc = "call" /\ Len(keygenLog) < MaxCalls
    /\ \E pair \in CallPairs :
          /\ keygenLog' = Append(keygenLog,
                [megacloudKey |-> pair[1], clientKey |-> pair[2],
                 key |-> keygen2(pair[1], pair[2]) \o Itoa(Len(keygenLog))])
          /\ keygenVals' = KeygenValsOf(pair[1], pair[2])
    /\ UNCHANGED <<mode, pc, panic, megacloudKey, clientKey, src, genKey,
                   decSrc, i, charArray, subValues, layerLog, result, text,
                   key, layer, order, encoded, decoded>>
    /\ UNCHANGED <<clientKeyVars, cacheVars, extractVars, historyVars>>

\* keygen2(pair[1], pair[2]), one more call
KeygenCall ==
    /\ mode = "keygen" /\ pc = "call" /\ Len(keygenLog) < MaxCalls
    /\ \E pair \in CallPairs :
          /\ keygenLog' = Append(keygenLog,
                [megacloudKey |-> pair[1], clientKey |-> pair[2],
                 key |-> keygen2(pair[1], pair[2])])
          /\ keygenVals' = KeygenValsOf(pair[1], pair[2])
    /\ UNCHANGED <<mode, pc, panic, megacloudKey, clientKey, src, genKey,
                   decSrc, i, charArray, subValues, layerLog, result, text,
                   key, layer, order, encoded, decoded>>
    /\ UNCHANGED <<clientKeyVars, cacheVars, extractVars, historyVars>>

\* decSrc := atob(src), called alone
AtobCall ==
    /\ mode = "atob" /\ pc = "call"
    /\ decSrc' = atob(src)
    /\ pc' = "done"
    /\ UNCHANGED <<mode, panic, megacloudKey, clientKey, src, genKey,
                   keygenVals, i, charArray, subValues, layerLog, result,
                   text, key, layer, order, encoded, decoded, keygenLog>>
    /\ UNCHANGED <<clientKeyVars, cacheVars, extractVars, historyVars>>

\* decoded := columnarCipher2(text, key), called alone
ColumnarCall ==
    /\ mode = "columnar" /\ pc = "call"
    /\ decoded' = columnarCipher2(text, key)
    /\ pc' = "done"
    /\ UNCHANGED <<mode, panic, megacloudKey, clientKey, src, genKey,
                   keygenVals, decSrc, i, charArray, subValues, layerLog,
                   result, text, key, layer, order, encoded, keygenLog>>
    /\ UNCHANGED <<clientKeyVars, cacheVars, extractVars, historyVars>>

Next ==
    \/ Keygen
    \/ Atob
    \/ ReverseLayer
    \/ Frame
    \/ ForwardLayer
    \/ ReverseBack
    \/ SeedShuffle
    \/ KeygenCall
    \/ AtobCall
    \/ ColumnarCall

Spec == Init /\ [][Next]_vars

(***************************************************************************)
(* extractClientKey called alone on an embed page.                         *)
(***************************************************************************)
CipherIdle ==
    /\ mode = "idle" /\ pc = "idle"
    /\ megacloudKey = <<>> /\ clientKey = <<>> /\ src = <<>>
    /\ text = <<>> /\ key = <<>> /\ layer = 0 /\ order = ""
    /\ Blank

InitClientKey ==
    /\ pageOrder \in FragmentOrders
    /\ html = PageOf(pageOrder)
    /\ extracted = NotCalled
    /\ CipherIdle
    /\ CacheIdle
    /\ ExtractIdle
    /\ HistoryIdle

\* extracted := extractClientKey(html)
ExtractClientKey ==
    /\ extracted = NotCalled
    /\ extracted' = extractClientKey(html)
    /\ UNCHANGED <<pageOrder, html>>
    /\ UNCHANGED <<cipherVars, cacheVars, extractVars, historyVars>>

NextClientKey == ExtractClientKey

SpecClientKey == InitClientKey /\ [][NextClientKey]_vars

(***************************************************************************)
(* getMegacloudKey, step by step, in goroutine g.                          *)
(***************************************************************************)
\* the call as it begins
KeyCallBegun == [NoKeyCall EXCEPT !.pc = "lock", !.atCall = HasKey(keys, "mega")]

\* a goroutine calls getMegacloudKey
CallKey(g) ==
    /\ getKey[g].pc = "idle"
    /\ keyCalls < MaxKeyCalls
    /\ getKey' = [getKey EXCEPT ![g] = KeyCallBegun]
    /\ keyCalls' = keyCalls + 1
    /\ UNCHANGED <<keys, keysMu, feed, requests>>
    /\ UNCHANGED <<cipherVars, clientKeyVars, extractVars, historyVars>>

\* m.keysMu.Lock()
Lock(g) ==
    /\ getKey[g].pc = "lock"
    /\ keysMu = 0
    /\ keysMu' = g
    /\ getKey' = [getKey EXCEPT ![g].pc = "check"]
    /\ UNCHANGED <<keys, feed, requests, keyCalls>>
    /\ UNCHANGED <<cipherVars, clientKeyVars, extractVars, historyVars>>

\* Check without the look at m.keys: every call goes on to fetch
CheckSkipped(g) ==
    /\ getKey[g].pc = "check"
    /\ getKey' = [getKey EXCEPT ![g].pc = "fetch"]
    /\ UNCHANGED <<keys, keysMu, feed, requests, keyCalls>>
    /\ UNCHANGED <<cipherVars, clientKeyVars, extractVars, historyVars>>

\* if m.keys != nil { if key, ok := m.keys["mega"]; ok { return key, nil } }
Check(g) ==
    /\ getKey[g].pc = "check"
    /\ IF ~keys.nil /\ HasKey(keys, "mega")
       THEN getKey' = [getKey EXCEPT ![g].pc = "unlock",
                                      ![g].key = Lookup(keys, "mega"),
                                      ![g].hit = TRUE]
       ELSE getKey' = [getKey EXCEPT ![g].pc = "fetch"]
    /\ UNCHANGED <<keys, keysMu, feed, requests, keyCalls>>
    /\ UNCHANGED <<cipherVars, clientKeyVars, extractVars, historyVars>>

\* httputil.GetJSON(m.client, megacloudKeysURL): one request; it fails, or it
\* brings what the feed serves, or a body that is not JSON
Fetch(g) ==
    /\ getKey[g].pc = "fetch"
    /\ requests' = Append(requests, "keys")
    /\ \/ getKey' = [getKey EXCEPT ![g].pc = "unlock",
                                    ![g].sent = @ + 1,
                                    ![g].err = "fetching megacloud keys"]
       \/ \E body \in {feed, FeedNotJSON} :
             getKey' = [getKey EXCEPT ![g].pc = "store",
                                      ![g].sent = @ + 1,
                                      ![g].body = body]
    /\ UNCHANGED <<keys, keysMu, feed, keyCalls>>
    /\ UNCHANGED <<cipherVars, clientKeyVars, extractVars, historyVars>>

\* json.Unmarshal(body, &keys); m.keys = keys; key, ok := keys["mega"]
Store(g) ==
    /\ getKey[g].pc = "store"
    /\ IF ~getKey[g].body.valid
       THEN /\ getKey' = [getKey EXCEPT ![g].pc = "unlock",
                                         ![g].err = "parsing megacloud keys"]
            /\ UNCHANGED keys
       ELSE /\ keys' = MapOf(getKey[g].body.entries)
            /\ IF HasKey(MapOf(getKey[g].body.entries), "mega")
               THEN getKey' = [getKey EXCEPT
                                  ![g].pc = "unlock",
                                  ![g].key = Lookup(MapOf(getKey[g].body.entries), "mega")]
               ELSE getKey' = [getKey EXCEPT
                                  ![g].pc = "unlock",
                                  ![g].err = "mega key not found in keys response"]
    /\ UNCHANGED <<keysMu, feed, requests, keyCalls>>
    /\ UNCHANGED <<cipherVars, clientKeyVars, extractVars, historyVars>>

\* defer m.keysMu.Unlock(), as the call returns
Unlock(g) ==
    /\ getKey[g].pc = "unlock"
    /\ keysMu = g
    /\ keysMu' = 0
    /\ getKey' = [getKey EXCEPT ![g].pc = "returned"]
    /\ UNCHANGED <<keys, feed, requests, keyCalls>>
    /\ UNCHANGED <<cipherVars, clientKeyVars, extractVars, historyVars>>

\* the caller has the result
ReturnKey(g) ==
    /\ getKey[g].pc = "returned"
    /\ call.pc = "idle"
    /\ getKey' = [getKey EXCEPT ![g] = NoKeyCall]
    /\ UNCHANGED <<keys, keysMu, feed, requests, keyCalls>>
    /\ UNCHANGED <<cipherVars, clientKeyVars, extractVars, historyVars>>

\* the key feed serves another body
FeedRotates ==
    /\ \E body \in Feeds \ {feed} : feed' = body
    /\ UNCHANGED <<keys, keysMu, getKey, requests, keyCalls>>
    /\ UNCHANGED <<cipherVars, clientKeyVars, extractVars, historyVars>>

InitKeyCache ==
    /\ keys = NilMap
    /\ keysMu = 0
    /\ getKey = [g \in Goroutines |-> NoKeyCall]
    /\ feed \in Feeds
    /\ requests = <<>>
    /\ keyCalls = 0
    /\ CipherIdle
    /\ ClientKeyIdle
    /\ ExtractIdle
    /\ HistoryIdle

NextKeyCache ==
    \/ \E g \in Goroutines : CallKey(g)
    \/ \E g \in Goroutines : Lock(g)
    \/ \E g \in Goroutines : Check(g)
    \/ \E g \in Goroutines : Fetch(g)
    \/ \E g \in Goroutines : Store(g)
    \/ \E g \in Goroutines : Unlock(g)
    \/ \E g \in Goroutines : ReturnKey(g)
    \/ FeedRotates

SpecKeyCache == InitKeyCache /\ [][NextKeyCache]_vars

(***************************************************************************)
(* Extract, step by step, in goroutine 1.                                  *)
(***************************************************************************)
\* Extract returns nil and the error
Failed(c, err) == [c EXCEPT !.pc = "returned", !.returned = "error", !.err = err]

\* a caller calls Extract(embedURL, preferredQuality)
StartExtract ==
    /\ call.pc = "idle"
    /\ extracts < MaxExtracts
    /\ \E u \in EmbedURLs, q \in Qualities :
          call' = [NoCall EXCEPT !.pc = "validate", !.embedURL = u,
                                 !.preferredQuality = q]
    /\ extracts' = extracts + 1
    /\ requests' = <<>>
    /\ UNCHANGED <<keys, keysMu, getKey, feed, keyCalls>>
    /\ UNCHANGED <<cipherVars, clientKeyVars, historyVars>>

\* httputil.ValidateURL(embedURL) and parseEmbedURL(embedURL)
Validate ==
    /\ call.pc = "validate"
    /\ LET parsed == parseEmbedURL(call.embedURL)
       IN  call' = IF ValidateURL(call.embedURL) # ""
                   THEN Failed(call, "invalid embed URL")
                   ELSE IF parsed.err # ""
                   THEN Failed(call, "parsing embed URL")
                   ELSE [call EXCEPT !.pc = "embed",
                                     !.domain = parsed.domain,
                                     !.embedPrefix = parsed.embedPrefix,
                                     !.sourceID = parsed.sourceID]
    /\ UNCHANGED <<extracts, cacheVars, cipherVars, clientKeyVars, historyVars>>

\* Step 1: m.fetchHTML(embedPageURL, ...): one request, which fails or brings a page
FetchEmbed ==
    /\ call.pc = "embed"
    /\ requests' = Append(requests, "embed")
    /\ \/ call' = Failed(call, "fetching embed page")
       \/ \E page \in EmbedPages :
             call' = [call EXCEPT !.pc = "clientkey", !.embedHTML = page]
    /\ UNCHANGED <<keys, keysMu, getKey, feed, keyCalls>>
    /\ UNCHANGED <<extracts, cipherVars, clientKeyVars, historyVars>>

\* Step 2: clientKey, err := extractClientKey(embedHTML)
ClientKey ==
    /\ call.pc = "clientkey"
    /\ LET r == extractClientKey(call.embedHTML)
       IN  call' = IF r.err # ""
                   THEN Failed(call, "extracting client key")
                   ELSE [call EXCEPT !.pc = "sources", !.clientKey = r.key]
    /\ UNCHANGED <<extracts, cacheVars, cipherVars, clientKeyVars, historyVars>>

\* Step 3: m.fetchJSON(getSourcesURL, embedURL): one request, which fails or brings a body
FetchSources ==
    /\ call.pc = "sources"
    /\ requests' = Append(requests, "getSources")
    /\ \/ call' = Failed(call, "fetching sources")
       \/ \E body \in SourcesBodies :
             call' = [call EXCEPT !.pc = "parse", !.body = body]
    /\ UNCHANGED <<keys, keysMu, getKey, feed, keyCalls>>
    /\ UNCHANGED <<extracts, cipherVars, clientKeyVars, historyVars>>

\* Step 4, and step 5 up to the call of getMegacloudKey or to the plaintext list
ParseResponse ==
    /\ call.pc = "parse"
    /\ LET resp == [Sources |-> call.body.sources, Tracks |-> call.body.tracks,
                    Encrypted |-> call.body.encrypted]
           str == unmarshalString(resp.Sources)
           list == unmarshalSources(resp.Sources)
       IN  IF ~call.body.valid
           THEN /\ call' = Failed(call, "parsing sources response")
                /\ UNCHANGED <<getKey, keyCalls>>
           ELSE IF resp.Encrypted
           THEN IF str.err # ""
                THEN /\ call' = Failed([call EXCEPT !.resp = resp],
                                       "parsing encrypted sources")
                     /\ UNCHANGED <<getKey, keyCalls>>
                ELSE /\ call' = [call EXCEPT !.pc = "key", !.resp = resp,
                                             !.encryptedSrc = str.value]
                     /\ getKey' = [getKey EXCEPT ![1] = KeyCallBegun]
                     /\ keyCalls' = keyCalls + 1
           ELSE /\ call' = IF list.err # ""
                           THEN Failed([call EXCEPT !.resp = resp],
                                       "parsing plaintext sources")
                           ELSE [call EXCEPT !.pc = "select", !.resp = resp,
                                             !.sources = list.value]
                /\ UNCHANGED <<getKey, keyCalls>>
    /\ UNCHANGED <<keys, keysMu, feed, requests>>
    /\ UNCHANGED <<extracts, cipherVars, clientKeyVars, historyVars>>

\* megaKey, err := m.getMegacloudKey(), as it returns
KeyReturned ==
    /\ call.pc = "key"
    /\ getKey[1].pc = "returned"
    /\ call' = IF getKey[1].err # ""
               THEN Failed(call, "fetching megacloud key")
               ELSE [call EXCEPT !.pc = "decrypt", !.megaKey = getKey[1].key]
    /\ getKey' = [getKey EXCEPT ![1] = NoKeyCall]
    /\ UNCHANGED <<keys, keysMu, feed, requests, keyCalls>>
    /\ UNCHANGED <<extracts, cipherVars, clientKeyVars, historyVars>>

\* the cipher's variables, back to what they are when no call runs
CipherReset ==
    /\ mode' = "idle" /\ pc' = "idle"
    /\ megacloudKey' = <<>> /\ clientKey' = <<>> /\ src' = <<>>
    /\ panic' = "" /\ genKey' = <<>> /\ keygenVals' = NoVals /\ decSrc' = <<>>
    /\ i' = 0 /\ charArray' = Alphabet /\ subValues' = <<>> /\ layerLog' = <<>>
    /\ result' = <<>>
    /\ UNCHANGED <<text, key, layer, order, encoded, decoded, keygenLog>>

\* decrypted := decryptSrc2(encryptedSrc, clientKey, megaKey): the call
CallDecrypt ==
    /\ call.pc = "decrypt"
    /\ call' = [call EXCEPT !.pc = "decrypting"]
    /\ mode' = "decrypt"
    /\ pc' = "keygen"
    /\ megacloudKey' = call.megaKey
    /\ clientKey' = call.clientKey
    /\ src' = call.encryptedSrc
    /\ UNCHANGED <<panic, genKey, keygenVals, decSrc, i, charArray, subValues,
                   layerLog, result, text, key, layer, order, encoded, decoded,
                   keygenLog>>
    /\ UNCHANGED <<extracts, cacheVars, clientKeyVars, historyVars>>

\* decryptSrc2 has returned, or has panicked; the check and parse of decrypted
Decrypted ==
    /\ call.pc = "decrypting"
    /\ mode = "decrypt"
    /\ pc \in {"done", "panic"}
    /\ LET list == unmarshalText(result)
       IN  call' = IF pc = "panic"
                   THEN [call EXCEPT !.pc = "panicked", !.panic = panic]
                   ELSE IF result = <<>>
                   THEN Failed(call, "decryption returned empty result")
                   ELSE IF list.err # ""
                   THEN Failed([call EXCEPT !.decrypted = result],
                               "parsing decrypted sources")
                   ELSE [call EXCEPT !.pc = "select", !.decrypted = result,
                                     !.sources = list.value]
    /\ CipherReset
    /\ UNCHANGED <<extracts, cacheVars, clientKeyVars, historyVars>>

\* the empty-list check, steps 6 and 7, and the return of the Stream
Select ==
    /\ call.pc = "select"
    /\ call' = IF Len(call.sources) = 0
               THEN Failed(call, "no sources found")
               ELSE [call EXCEPT
                        !.pc = "returned",
                        !.returned = "stream",
                        !.stream = [URL |-> selectURL(call.sources, call.preferredQuality, 1),
                                    Subtitles |-> mapSubtitles(call.resp.Tracks,
                                                               Len(call.resp.Tracks)),
                                    Quality |-> call.preferredQuality]]
    /\ UNCHANGED <<extracts, cacheVars, cipherVars, clientKeyVars, historyVars>>

\* the caller has the result
Finish ==
    /\ call.pc = "returned"
    /\ call' = NoCall
    /\ UNCHANGED <<extracts, cacheVars, cipherVars, clientKeyVars, historyVars>>

InitExtract ==
    /\ keys = NilMap
    /\ keysMu = 0
    /\ getKey = [g \in Goroutines |-> NoKeyCall]
    /\ feed \in Feeds
    /\ requests = <<>>
    /\ keyCalls = 0
    /\ ExtractIdle
    /\ HistoryIdle
    /\ CipherIdle
    /\ ClientKeyIdle

NextExtract ==
    \/ StartExtract
    \/ Validate
    \/ FetchEmbed
    \/ ClientKey
    \/ FetchSources
    \/ ParseResponse
    \/ \E g \in Goroutines : Lock(g)
    \/ \E g \in Goroutines : Check(g)
    \/ \E g \in Goroutines : Fetch(g)
    \/ \E g \in Goroutines : Store(g)
    \/ \E g \in Goroutines : Unlock(g)
    \/ KeyReturned
    \/ CallDecrypt
    \/ Keygen
    \/ Atob
    \/ ReverseLayer
    \/ Frame
    \/ Decrypted
    \/ Select
    \/ Finish
    \/ FeedRotates

SpecExtract == InitExtract /\ [][NextExtract]_vars

(***************************************************************************)
(* parseEmbedURL called alone, as TestParseEmbedURL calls it.              *)
(***************************************************************************)
InitParse ==
    /\ \E u \in ParseURLs : call = [NoCall EXCEPT !.pc = "parse", !.embedURL = u]
    /\ extracts = 0
    /\ HistoryIdle
    /\ CacheIdle
    /\ CipherIdle
    /\ ClientKeyIdle

\* domain, embedPrefix, sourceID, err := parseEmbedURL(embedURL)
ParseEmbedURL ==
    /\ call.pc = "parse"
    /\ LET parsed == parseEmbedURL(call.embedURL)
       IN  call' = [call EXCEPT !.pc = "parsed",
                                !.domain = parsed.domain,
                                !.embedPrefix = parsed.embedPrefix,
                                !.sourceID = parsed.sourceID,
                                !.err = parsed.err]
    /\ UNCHANGED <<extracts, cacheVars, cipherVars, clientKeyVars, historyVars>>

NextParse == ParseEmbedURL

SpecParse == InitParse /\ [][NextParse]_vars

(***************************************************************************)
(* The watch history: Save, Remove and Load, step by step, in process p.   *)
(***************************************************************************)
OtherIdle == UNCHANGED <<cipherVars, clientKeyVars, cacheVars, extractVars>>

\* Save(entry) is called
CallSave(p, entry) ==
    /\ hist[p].pc = "idle"
    /\ histOps < MaxHistoryOps
    /\ hist' = [hist EXCEPT ![p] = [NoHistCall EXCEPT !.pc = "load", !.op = "save",
                                                      !.entry = entry,
                                                      !.before = file]]
    /\ histOps' = histOps + 1
    /\ UNCHANGED file
    /\ OtherIdle

\* Remove(id, season, episode) is called
CallRemove(p, id, season, episode) ==
    /\ hist[p].pc = "idle"
    /\ histOps < MaxHistoryOps
    /\ hist' = [hist EXCEPT ![p] =
                   [NoHistCall EXCEPT !.pc = "load", !.op = "remove",
                                      !.entry = HistoryEntry(id, <<>>, Movie, season,
                                                             episode, 0, 0),
                                      !.before = file]]
    /\ histOps' = histOps + 1
    /\ UNCHANGED file
    /\ OtherIdle

\* Load() called by itself: the file as it is when opened
CallLoad(p) ==
    /\ hist[p].pc = "idle"
    /\ histOps < MaxHistoryOps
    /\ hist' = [hist EXCEPT ![p] = [NoHistCall EXCEPT !.pc = "returned", !.op = "load",
                                                      !.entries = Load(file),
                                                      !.before = file]]
    /\ histOps' = histOps + 1
    /\ UNCHANGED file
    /\ OtherIdle

\* Save, Remove: entries := Load()
HistLoad(p) ==
    /\ hist[p].pc = "load"
    /\ hist' = [hist EXCEPT ![p].pc = "write", ![p].entries = Load(file)]
    /\ UNCHANGED <<file, histOps>>
    /\ OtherIdle

\* Save, Remove: the new list, written to a temp file of its own
HistWrite(p) ==
    /\ hist[p].pc = "write"
    /\ LET e == hist[p].entry
           entries == IF hist[p].op = "save"
                      THEN saveEntries(hist[p].entries, e, 1)
                      ELSE removeEntries(hist[p].entries, e.ID, e.Season, e.Episode)
       IN  hist' = [hist EXCEPT ![p].pc = "rename", ![p].entries = entries,
                                ![p].tmp = WriteLines(entries)]
    /\ UNCHANGED <<file, histOps>>
    /\ OtherIdle

\* Save, Remove: os.Rename(tmpPath, path), and the return
HistRename(p) ==
    /\ hist[p].pc = "rename"
    /\ file' = [exists |-> TRUE, lines |-> hist[p].tmp]
    /\ hist' = [hist EXCEPT ![p].pc = "returned"]
    /\ UNCHANGED histOps
    /\ OtherIdle

\* the caller has the result
HistReturn(p) ==
    /\ hist[p].pc = "returned"
    /\ hist' = [hist EXCEPT ![p] = NoHistCall]
    /\ UNCHANGED <<file, histOps>>
    /\ OtherIdle

InitHistory ==
    /\ HistoryIdle
    /\ CipherIdle
    /\ ClientKeyIdle
    /\ CacheIdle
    /\ ExtractIdle

\* one process, its calls one after the other
NextHistory ==
    \/ \E entry \in SavedEntries : CallSave(1, entry)
    \/ \E entry \in SavedEntries : CallRemove(1, entry.ID, entry.Season, entry.Episode)
    \/ HistLoad(1)
    \/ HistWrite(1)
    \/ HistRename(1)
    \/ HistReturn(1)

SpecHistory == InitHistory /\ [][NextHistory]_vars

\* the entries process p saves when processes save at the same time: keys of
\* its own
SavedBy(p) == {entry \in SavedEntries : entry.ID = IF p = 1 THEN IdA ELSE IdB}

\* processes 1 and 2 save, the others load, all at the same time
NextHistoryRace ==
    \/ \E p \in {1, 2} : \E entry \in SavedBy(p) : CallSave(p, entry)
    \/ \E p \in Procs \ {1, 2} : CallLoad(p)
    \/ \E p \in Procs : HistLoad(p)
    \/ \E p \in Procs : HistWrite(p)
    \/ \E p \in Procs : HistRename(p)
    \/ \E p \in Procs : HistReturn(p)

SpecHistoryRace == InitHistory /\ [][NextHistoryRace]_vars


(***************************************************************************)
(* Properties.                                                             *)
(***************************************************************************)
\* keygen2 has returned: keygenVals holds the values of its last call
KeygenReturned == keygenVals # NoVals
LastServerKey == IF mode = "keygen" THEN keygenLog[Len(keygenLog)].megacloudKey ELSE megacloudKey
LastClientKey == IF mode = "keygen" THEN keygenLog[Len(keygenLog)].clientKey ELSE clientKey
LastKey == IF mode = "keygen" THEN keygenLog[Len(keygenLog)].key ELSE genKey

\* the number of cells that fill a text of n characters up to whole rows
PadLen(n, columnCount) == (columnCount - (n % columnCount)) % columnCount
\* what the inverse substitution makes of a space
PadChar == charArray[LastIndex(subValues, 32) + 1]

\* C1 (as stated): the documented forward transform (shift, transposition,
\* substitution) followed by reverseLayer with the same key and layer returns
\* the original text
C1_DocumentedRoundTrip ==
    (mode = "layer" /\ pc = "done" /\ order = "documented") => decoded = text

\* C1 (amended): the forward steps taken in the opposite order (substitution,
\* transposition, shift) followed by reverseLayer return the original text
\* followed by the fill of its last row; exactly the original text when its
\* length is a multiple of len(key) + 1
C1_OppositeRoundTrip ==
    (mode = "layer" /\ pc = "done" /\ order = "opposite") =>
        /\ decoded = text \o [n \in 1..PadLen(Len(text), Len(key) + 1) |-> PadChar]
        /\ (Len(text) % (Len(key) + 1) = 0 => decoded = text)

C1_Witness ==
    /\ mode = "layer" /\ pc = "done" /\ order = "opposite"
    /\ key = Key40 /\ Len(text) = 82 /\ layer = 2
    /\ encoded # text
    /\ decoded = text

\* C2: decryptSrc2 never raises: no call ends in a panic
C2_NeverRaises == pc # "panic" /\ panic = ""

\* C3 (as stated): the length of the key keygen2 returns is at least 96 and
\* at most 128
C3_LengthInRange ==
    KeygenReturned => (Len(LastKey) >= 96 /\ Len(LastKey) <= 128)

RECURSIVE ResidueLoop(_, _, _, _, _)
\* the remainder by m < 2^26 of the limbs hi, hi-1 .. lo, entered with r
ResidueLoop(a, m, hi, lo, r) ==
    IF hi < lo THEN r
    ELSE IF hi = lo THEN (((((((r * 32) % m) * 32) % m) * 32) % m) + a[hi]) % m
    ELSE LET upper == ResidueLoop(a, m, hi, Mid(lo, hi) + 1, r)
         IN  Strict(upper, ResidueLoop(a, m, Mid(lo, hi), lo, upper))

Residue(a, m) == ResidueLoop(a, m, Len(a), 1, 0)

\* C3 (amended): the length of the key keygen2 returns is the smaller of
\* 96 + L mod 33 and len(serverKey) + len(clientKey) + len(reversed
\* clientKey); it is at most 128, and at least 96 exactly when that sum is
C3_LengthIsMin ==
    KeygenReturned =>
        LET total == Len(LastServerKey) + Len(LastClientKey)
                        + Len(reverseString(LastClientKey))
            limit == 96 + Residue(keygenVals.lHashInt, 33)
        IN  /\ Len(LastKey) = MinOf(limit, total)
            /\ Len(LastKey) <= 128
            /\ (Len(LastKey) >= 96 <=> total >= 96)

C3_Witness ==
    /\ KeygenReturned
    /\ Len(LastKey) >= 96
    /\ Len(LastKey) < Len(LastServerKey) + 2 * Len(LastClientKey)

\* C4: every byte of the key keygen2 returns lies in 32..126
C4_Printable ==
    KeygenReturned => \A n \in DOMAIN LastKey : LastKey[n] >= 32 /\ LastKey[n] <= 126

C4_Witness ==
    /\ KeygenReturned
    /\ LastKey # <<>>
    /\ \E n \in DOMAIN LastClientKey : LastClientKey[n] > 126

RECURSIVE HornerLoop(_, _, _, _)
\* H := c + H * 158 over the bytes lo..hi, in exact integers
HornerLoop(tempKey, h, lo, hi) ==
    IF lo > hi THEN h
    ELSE IF lo = hi THEN BigAdd(BigMulSmall(h, 158), BigFromInt(tempKey[lo]))
    ELSE LET left == HornerLoop(tempKey, h, lo, Mid(lo, hi))
         IN  Strict(left, HornerLoop(tempKey, left, Mid(lo, hi) + 1, hi))

RECURSIVE HornerModLoop(_, _, _, _, _)
\* the same recurrence in the integers mod m
HornerModLoop(tempKey, m, h, lo, hi) ==
    IF lo > hi THEN h
    ELSE IF lo = hi THEN (tempKey[lo] + h * 158) % m
    ELSE LET left == HornerModLoop(tempKey, m, h, lo, Mid(lo, hi))
         IN  Strict(left, HornerModLoop(tempKey, m, left, Mid(lo, hi) + 1, hi))

\* 2^63 - 1 = 49 * 73 * 127 * 337 * 92737 * 649657, pairwise coprime
MersenneFactors == {49, 73, 127, 337, 92737, 649657}

\* C5: the hash of keygen2 is the exact value H of the recurrence
\* H := c + H*31 + H*128 - H, L is H mod (2^63 - 1) (0 <= L <= 2^63 - 2 and
\* L = H modulo every factor of 2^63 - 1), and the pivot and the length of
\* the key follow from that L
C5_ExactHash ==
    KeygenReturned =>
        LET tempKey == LastServerKey \o LastClientKey
            n == Len(tempKey)
            L == keygenVals.lHashInt
            pivot == (Residue(L, n) + 5) % n
        IN  /\ keygenVals.hashVal = HornerLoop(tempKey, <<>>, 1, n)
            /\ \A m \in MersenneFactors \cup {2^15, 2^15 - 1} :
                  Residue(keygenVals.hashVal, m) = HornerModLoop(tempKey, m, 0, 1, n)
            /\ BigCmp(L, BigOnes(63)) < 0
            /\ keygenVals.lHash = L
            /\ \A m \in MersenneFactors :
                  Residue(L, m) = HornerModLoop(tempKey, m, 0, 1, n)
            /\ keygenVals.pivot = pivot
            /\ keygenVals.limit = 96 + Residue(L, 33)
            /\ LastKey[1] = (Xor8(tempKey[pivot + 1], 247) % 95) + 32
            /\ Len(LastKey) <= keygenVals.limit

C5_Witness ==
    /\ KeygenReturned
    /\ BigCmp(keygenVals.hashVal, BigLsh(<<1>>, 64)) >= 0
    /\ Len(LastKey) = keygenVals.limit

\* the three sub-steps of one logged reverseLayer call, in the order shift,
\* columnar transposition, substitution
LayerStepsInOrder(r) ==
    /\ r.shifted = layerShift(r.input, r.layerKey, Alphabet)
    /\ r.transposed = columnarCipher2(r.shifted, r.layerKey)
    /\ r.subValues = seedShuffle2(Alphabet, r.layerKey).result
    /\ r.out = layerSubstitute(r.transposed, r.subValues, Alphabet)

\* C6: decryptSrc2 reverses layer 3, then 2, then 1, each on the output of
\* the one before (the first on atob(src)), keyed by genKey followed by the
\* layer's digit, exactly three by the time the frame is read; in each layer
\* the sub-steps are shift, transposition, substitution
C6_LayerOrder ==
    mode = "decrypt" =>
        /\ Len(layerLog) <= layers
        /\ \A k \in DOMAIN layerLog :
              /\ layerLog[k].iteration = layers + 1 - k
              /\ layerLog[k].layerKey = genKey \o <<48 + layerLog[k].iteration>>
              /\ layerLog[k].input =
                    IF k = 1 THEN atob(src) ELSE layerLog[k - 1].out
        /\ layerLog # <<>> => decSrc = layerLog[Len(layerLog)].out
        /\ (pc \in {"layers", "frame"} /\ layerLog # <<>>) =>
              LayerStepsInOrder(layerLog[Len(layerLog)])
        /\ (pc \in {"frame", "done"}) => Len(layerLog) = layers
        /\ i = layers - Len(layerLog) \/ pc \in {"keygen", "atob", "panic"}

C6_Witness ==
    /\ mode = "decrypt" /\ pc = "done"
    /\ Len(layerLog) = layers
    /\ result # <<>>
    /\ layerLog[1].out # layerLog[1].input
    /\ layerLog[1].shifted # layerLog[1].transposed

\* C7: with text the output of the three layers, decryptSrc2 returns
\* text[4:4+n] (n characters) when text has at least 4 characters, its first
\* 4 parse as n and 4+n <= len(text); in every other case, and for the empty
\* payload with any keys, it returns the empty string
C7_FrameResult ==
    /\ (mode = "decrypt" /\ pc \in {"done", "panic"} /\ Len(layerLog) = layers) =>
          IF /\ Len(decSrc) >= 4
             /\ AtoiOk(SubSeq(decSrc, 1, 4))
             /\ 4 + AtoiValue(SubSeq(decSrc, 1, 4)) <= Len(decSrc)
          THEN /\ pc = "done"
               /\ result = SubSeq(decSrc, 5, 4 + AtoiValue(SubSeq(decSrc, 1, 4)))
               /\ Len(result) = AtoiValue(SubSeq(decSrc, 1, 4))
          ELSE pc = "done" /\ result = <<>>
    /\ (mode = "decrypt" /\ pc \in {"done", "panic"} /\ src = <<>>) =>
          (pc = "done" /\ result = <<>>)

\* C8: the array seedShuffle2 returns is a permutation of the alphabet: 95
\* entries, every symbol 32..126 exactly once
C8_Permutation ==
    subValues # <<>> =>
        /\ Len(subValues) = 95
        /\ \A c \in 32..126 : Cardinality({n \in 1..95 : subValues[n] = c}) = 1

C8_Witness ==
    /\ mode = "shuffle" /\ pc = "done"
    /\ key = <<>>
    /\ subValues # <<>>
    /\ subValues # Alphabet

\* C9: the shared alphabet is never modified: it holds the symbols 32..126 in
\* ascending order after any reverseLayer and seedShuffle2 calls
C9_AlphabetUnchanged ==
    /\ Len(charArray) = 95
    /\ \A n \in 1..95 : charArray[n] = 31 + n

C9_Witness ==
    /\ mode = "decrypt" /\ pc = "layers" /\ i = 1
    /\ subValues # <<>>
    /\ subValues # charArray

UnmappedAsA(s) ==
    LET runes == Runes(s)
    IN  StringOf([n \in 1..Len(runes) |->
            IF \/ runes[n] \in {61, 10, 13, 32}
               \/ (runes[n] < 128 /\ LastIndex(base64Chars, runes[n]) >= 0)
            THEN runes[n] ELSE 65])

\* C11: atob of the standard base64 encoding of b is b, with the padding and
\* with the padding removed; atob("") is ""
C11_DecodesEncoding ==
    (mode = "atob" /\ pc = "done") =>
        /\ order \in {"padded", "unpadded"} => decSrc = text
        /\ src = <<>> => decSrc = <<>>

C11_Witness ==
    /\ mode = "atob" /\ pc = "done" /\ order = "unpadded"
    /\ text = <<251, 255>>
    /\ Len(src) = 3
    /\ decSrc = text

\* C12: atob decodes a symbol outside the base64 alphabet as the value 0: the
\* output is that of the input with each such symbol replaced by 'A'
C12_UnmappedIsZero ==
    (mode = "atob" /\ pc = "done") => decSrc = atob(UnmappedAsA(src))

\* C13: columnarCipher2 with an empty key returns its input unchanged
C13_EmptyKeyIdentity ==
    (mode = "columnar" /\ pc = "done" /\ key = <<>>) => decoded = text

C13_Witness ==
    /\ mode = "columnar" /\ pc = "done" /\ key = <<>>
    /\ text = <<0, 200, 10, 32, 65>>
    /\ decoded = text

\* what each fragment is written to be: the idiom (0..5 in priority order,
\* -1 for none) and the key parts in the order they stand in the fragment
FragmentIdiom == <<0, 1, 1, 2, 2, 2, 2, 3, 4, 5, 5, -1>>
FragmentParts ==
    << <<<<109, 75, 49>>>>, <<<<99, 75, 50>>>>, <<<<99, 84, 50>>>>,
       <<<<80, 49>>, <<80, 50>>, <<80, 51>>>>,
       <<<<81, 49>>, <<81, 50>>, <<81, 51>>>>,
       <<<<82, 49>>, <<82, 50>>, <<82, 51>>>>,
       <<<<83, 49>>, <<83, 50>>, <<83, 51>>>>,
       <<<<100, 75, 52>>>>, <<<<110, 75, 53>>>>, <<<<119, 75, 54>>>>, <<<<119, 83, 54>>>>,
       <<>> >>

\* the positions in the page of the fragments that carry an idiom, and the
\* one that has priority: the first idiom in the fixed order, the leftmost
\* fragment among those of that idiom
Carriers == {n \in DOMAIN pageOrder : FragmentIdiom[pageOrder[n]] >= 0}
Winner ==
    CHOOSE n \in Carriers :
        \A m \in Carriers :
            \/ FragmentIdiom[pageOrder[n]] < FragmentIdiom[pageOrder[m]]
            \/ (FragmentIdiom[pageOrder[n]] = FragmentIdiom[pageOrder[m]] /\ n <= m)
WinnerParts == FragmentParts[pageOrder[Winner]]

RECURSIVE JoinParts(_, _, _)
\* the parts in the order given, one after the other
JoinParts(parts, perm, n) ==
    IF n > Len(perm) THEN <<>> ELSE parts[perm[n]] \o JoinParts(parts, perm, n + 1)

\* C14: when the page matches several patterns, the key returned is that of
\* the matching pattern first in priority order (its parts in some order),
\* wherever the matches stand in the page
C14_PriorityWins ==
    (extracted # NotCalled /\ Cardinality(Carriers) >= 2) =>
        /\ extracted.err = ""
        /\ \E perm \in [1..Len(WinnerParts) -> 1..Len(WinnerParts)] :
              /\ \A a, b \in DOMAIN perm : a # b => perm[a] # perm[b]
              /\ extracted.key = JoinParts(WinnerParts, perm, 1)

\* C15: when the three-field object literal wins, the key is the
\* concatenation of its three values in the order the fields are written
C15_LiteralOrder ==
    (extracted # NotCalled /\ Carriers # {} /\ Len(WinnerParts) = 3) =>
        /\ extracted.err = ""
        /\ extracted.key = WinnerParts[1] \o WinnerParts[2] \o WinnerParts[3]

\* the "mega" entry of m.keys is the cached server key
ServerKeyCached == ~keys.nil /\ HasKey(keys, "mega")

\* C19: on one extractor, whatever the goroutines' calls and their order,
\* the server key is cached at most once: once m.keys holds it no step changes
\* m.keys, whatever the feed serves by then, and a call begun after that sends
\* no request and returns the cached key.
C19_FilledOnce ==
    /\ [][ServerKeyCached => keys' = keys]_vars
    /\ [](\A g \in Goroutines :
            getKey[g].atCall =>
                /\ getKey[g].sent = 0
                /\ getKey[g].err = ""
                /\ getKey[g].pc \in {"unlock", "returned"} =>
                      /\ getKey[g].hit
                      /\ getKey[g].key = Lookup(keys, "mega"))

\* a call begun after the fill has returned the cached key while the feed
\* serves another key, after an earlier call filled the cache
C19_Witness ==
    \E g \in Goroutines :
        /\ getKey[g].pc = "returned"
        /\ getKey[g].atCall
        /\ getKey[g].key = KeyK
        /\ feed = FeedMegaK2
        /\ requests = <<"keys">>

\* C20: once the server key is cached, a caller arriving at the mutex while
\* the only goroutine inside getMegacloudKey is one reading the cached key is
\* not kept waiting.
C20_ReadersNotExcluded ==
    \A g \in Goroutines :
        (/\ ServerKeyCached
         /\ getKey[g].pc = "lock"
         /\ \A h \in Goroutines :
               keysMu = h => (getKey[h].pc = "check" \/ getKey[h].hit))
            => ENABLED Lock(g)

\* Extract has returned a Stream
StreamReturned == call.pc = "returned" /\ call.returned = "stream"

\* the entries of a source list that hold the quality, in their type or file name
Holding(sources, quality) ==
    {n \in 1..Len(sources) :
        Contains(sources[n].Type, quality) \/ Contains(sources[n].File, quality)}

\* C16: the URL of the returned Stream is the file of the first source whose
\* type or file name contains preferredQuality, and the file of the first
\* source when none does.
C16_QualitySelection ==
    StreamReturned =>
        LET hits == Holding(call.sources, call.preferredQuality)
        IN  IF hits = {}
            THEN call.stream.URL = call.sources[1].File
            ELSE \E n \in hits :
                    /\ \A k \in hits : n <= k
                    /\ call.stream.URL = call.sources[n].File

\* C17: a finished Extract call has returned a Stream and no error, or an
\* error and no Stream; and a Stream only after the embed page and the
\* sources were fetched, a client key was extracted, the decryption (when
\* flagged) gave text, and the source list is not empty.
C17_StreamXorError ==
    call.pc \in {"returned", "panicked"} =>
        \/ /\ call.returned = "stream"
           /\ call.err = ""
           /\ call.stream.URL # <<>>
           /\ SubSeq(requests, 1, 2) = <<"embed", "getSources">>
           /\ call.clientKey # <<>>
           /\ call.resp.Encrypted => call.decrypted # <<>>
           /\ Len(call.sources) > 0
        \/ /\ call.returned = "error"
           /\ call.err # ""
           /\ call.stream = NoStream

\* the first n of the three endpoints, in the order Extract uses them
Endpoints(n) == SubSeq(<<"embed", "getSources", "keys">>, 1, n)

\* C18: the requests of an Extract call are a prefix of embed page, getSources,
\* key feed; the key feed is requested only for a response flagged encrypted
\* and with no server key cached; once a step has failed no request follows,
\* and the failure is an error returned to the caller.
C18_RequestPrefix ==
    /\ [](/\ requests = Endpoints(Len(requests))
          /\ call.pc # "panicked")
    /\ [][/\ (requests' # requests /\ requests' # <<>> /\ requests'[Len(requests')] = "keys")
                => (call.resp.Encrypted /\ ~ServerKeyCached)
          /\ (call.err # "" \/ getKey[1].err # "" \/ call.pc = "panicked")
                => /\ requests' = requests
                   /\ call'.pc \in {"returned", "idle", "panicked", "key"}]_vars

\* the segments of a path that are not empty, in order
NonEmptySegments(path) ==
    SelectSeq(SplitSlash(TrimSlash(path)), LAMBDA segment : segment # <<>>)

\* C21: parseEmbedURL returns as embedPrefix the first path segment when it
\* is embed-<digits> and embed-2 otherwise, as sourceID the last non-empty
\* path segment whatever the number of empty segments after it, and fails
\* only when the path has no non-empty segment.
C21_LastNonEmptySegment ==
    call.pc = "parsed" =>
        LET first == SplitSlash(TrimSlash(call.embedURL.Path))[1]
            segments == NonEmptySegments(call.embedURL.Path)
        IN  IF segments = <<>>
            THEN call.err # ""
            ELSE /\ call.err = ""
                 /\ call.sourceID = segments[Len(segments)]
                 /\ call.embedPrefix = IF IsEmbedPrefix(first) THEN first ELSE Embed2

\* the embed URL of the call is one ValidateURL must refuse
BadEmbedURL == call.embedURL.Scheme # "https" \/ call.embedURL.Host = <<>>

\* C22: Extract on an embed URL whose scheme is not https or whose host is
\* empty returns an error, sends no request and leaves the server-key cache
\* and its mutex as they were.
C22_InvalidURLRejected ==
    /\ []((BadEmbedURL /\ call.pc \notin {"idle", "validate"}) =>
             /\ call.pc = "returned"
             /\ call.returned = "error"
             /\ call.err = "invalid embed URL"
             /\ requests = <<>>)
    /\ [][(BadEmbedURL /\ call.pc # "idle") =>
             /\ keys' = keys
             /\ keysMu' = keysMu
             /\ getKey' = getKey
             /\ requests' = requests]_vars

\* a second call, with an http URL, has returned while the cache holds a key
C22_Witness ==
    /\ call.pc = "returned"
    /\ call.embedURL.Scheme = "http"
    /\ call.returned = "error"
    /\ extracts = 2
    /\ ServerKeyCached

\* the tracks of a response that are captions with a file, in order
CaptionTracks(tracks) ==
    SelectSeq(tracks, LAMBDA t : t.Kind = "captions" /\ t.File # <<>>)

\* C23: the subtitles of the returned Stream are the tracks of the response
\* that are captions with a file: one descriptor for each, carrying its label
\* and file, in the order of the response, and nothing else.
C23_SubtitlesAreCaptions ==
    StreamReturned =>
        LET captions == CaptionTracks(call.body.tracks)
        IN  /\ Len(call.stream.Subtitles) = Len(captions)
            /\ \A n \in 1..Len(captions) :
                  /\ call.stream.Subtitles[n].URL = captions[n].File
                  /\ call.stream.Subtitles[n].Label = captions[n].Label

\* a Stream returned for a response with four tracks, two of them kept
C23_Witness ==
    /\ StreamReturned
    /\ Len(call.body.tracks) = 4
    /\ Len(call.stream.Subtitles) = 2
    /\ call.stream.Subtitles[1].URL # call.stream.Subtitles[2].URL

\* the keys of a list of entries, in order
KeysOf(entries) ==
    [n \in 1..Len(entries) |-> <<entries[n].ID, entries[n].Season, entries[n].Episode>>]

\* the ordered map after Save(entry): entry in the place of its key, or last
MapSave(entries, entry) ==
    IF \E n \in 1..Len(entries) : KeysOf(entries)[n] = KeysOf(<<entry>>)[1]
    THEN [n \in 1..Len(entries) |->
             IF KeysOf(entries)[n] = KeysOf(<<entry>>)[1] THEN entry ELSE entries[n]]
    ELSE entries \o <<entry>>

\* the ordered map after Remove of the key of entry
MapRemove(entries, entry) ==
    SelectSeq(entries, LAMBDA e : KeysOf(<<e>>)[1] # KeysOf(<<entry>>)[1])

\* C24: from an empty history, after any sequence of Save and Remove calls
\* made one after the other, Load returns at most one entry per key, and
\* each call has turned what Load returned before it into the ordered map
\* with the entry saved in the place of its key or appended, or with the key
\* removed, every other entry unchanged and in place.
C24_OrderedMap ==
    /\ \A a, b \in 1..Len(Load(file)) :
          KeysOf(Load(file))[a] = KeysOf(Load(file))[b] => a = b
    /\ (hist[1].pc = "returned" /\ hist[1].op = "save") =>
          Load(file) = MapSave(Load(hist[1].before), hist[1].entry)
    /\ (hist[1].pc = "returned" /\ hist[1].op = "remove") =>
          Load(file) = MapRemove(Load(hist[1].before), hist[1].entry)

\* C30: once two Save calls of different keys that ran at the same time have
\* both returned, Load returns an entry for each of the two keys; and every
\* entry a Load running beside them returns is a saved entry, whole.
C30_BothSaved ==
    /\ (/\ hist[1].pc = "returned" /\ hist[1].op = "save"
        /\ hist[2].pc = "returned" /\ hist[2].op = "save") =>
          \A p \in {1, 2} :
             \E n \in 1..Len(Load(file)) :
                KeysOf(Load(file))[n] = KeysOf(<<hist[p].entry>>)[1]
    /\ \A p \in Procs :
          (hist[p].pc = "returned" /\ hist[p].op = "load") =>
             \A n \in 1..Len(hist[p].entries) :
                \E entry \in SavedEntries :
                   hist[p].entries[n] = parseLine(formatLine(entry)).entry

\* the shift step as documented: one step per byte of the text, a byte outside
\* the alphabet copied as it is
shiftPerByte(bytes, layerKey) ==
    layerShiftLoop(bytes, <<<<>>, seedHash(layerKey)>>, 1, Len(bytes), Alphabet)[1]

\* C25: the shift step of every reverseLayer call copies each character that
\* is not one of the 95 alphabet symbols (control bytes and the bytes
\* 128..255 of the base64 decode included) unchanged to the same position
\* without a draw, replaces each alphabet symbol by
\* alphabet[(index - r + 95) mod 95] for one draw r, and gives an output as
\* long as its input.
C25_ShiftPassesThrough ==
    \A n \in 1..Len(layerLog) :
       /\ layerLog[n].shifted = shiftPerByte(layerLog[n].input, layerLog[n].layerKey)
       /\ Len(layerLog[n].shifted) = Len(layerLog[n].input)

\* the same, for the calls whose text is well-formed UTF-8
C25_WellFormedOnly ==
    \A n \in 1..Len(layerLog) :
       StringOf(Runes(layerLog[n].input)) = layerLog[n].input =>
          /\ layerLog[n].shifted = shiftPerByte(layerLog[n].input, layerLog[n].layerKey)
          /\ Len(layerLog[n].shifted) = Len(layerLog[n].input)

\* the documented generator: the seed of a key, in exact integers
RECURSIVE polyHash(_, _, _, _)
polyHash(bytes, state, lo, hi) ==
    IF lo > hi THEN state
    ELSE IF lo = hi
    THEN BigMask(BigAdd(BigMul(state, BigFromInt(31)), BigFromInt(bytes[lo])), 32)
    ELSE LET left == polyHash(bytes, state, lo, Mid(lo, hi))
         IN  Strict(left, polyHash(bytes, left, Mid(lo, hi) + 1, hi))

\* the state before its reduction modulo 2^31, in exact integers
lcgUnreduced(state) == BigAdd(BigMul(state, lcgMultiplier), lcgIncrement)

\* one state update of the generator `which`
lcgStep(which, state) ==
    CASE which = "seedRand" -> seedRandStep(state)
      [] which = "pseudoRand" -> pseudoRandStep(state)
      [] which = "exact" -> BigMask(lcgUnreduced(state), 31)

RECURSIVE lcgStates(_, _, _, _)
\* states: the seed followed by the states after the draws lo..hi
lcgStates(which, states, lo, hi) ==
    IF lo > hi THEN states
    ELSE IF lo = hi THEN Append(states, lcgStep(which, states[Len(states)]))
    ELSE LET left == lcgStates(which, states, lo, Mid(lo, hi))
         IN  Strict(left, lcgStates(which, left, Mid(lo, hi) + 1, hi))

\* the draws of a whole shuffle: as many as the Fisher-Yates loop makes
NumDraws == Len(Alphabet) - 1

\* the bound of draw n of the shuffle (i + 1 for i = 94 .. 1), and of the shift
ShuffleBound(n) == Len(Alphabet) + 1 - n
ShiftBound(n) == Len(Alphabet)

\* the key the generators were seeded with in the step that led here
SeededKeys ==
    (IF mode = "shuffle" /\ pc = "done" THEN {key} ELSE {})
       \cup (IF Len(layerLog) > 0 THEN {layerLog[Len(layerLog)].layerKey} ELSE {})

GeneratorsExact(bytes) ==
    LET exact == lcgStates("exact", <<polyHash(bytes, <<>>, 1, Len(bytes))>>, 1, NumDraws)
        shift == lcgStates("seedRand", <<seedHash(bytes)>>, 1, NumDraws)
        shuffle == lcgStates("pseudoRand", <<shuffleHash(bytes)>>, 1, NumDraws)
    IN  /\ shift = exact
        /\ shuffle = exact
        /\ \A n \in 1..NumDraws :
              /\ BigMask(lcgUnreduced(exact[n]), 64) = lcgUnreduced(exact[n])
              /\ BigModSmall(shift[n + 1], ShiftBound(n)) \in 0..(ShiftBound(n) - 1)
              /\ BigModSmall(shuffle[n + 1], ShuffleBound(n)) \in 0..(ShuffleBound(n) - 1)
              /\ BigModSmall(shuffle[n + 1], ShuffleBound(n))
                    = BigModSmall(shift[n + 1], ShuffleBound(n))

\* C27: for every key the generators are seeded with, the shift generator of
\* reverseLayer and the generator of seedShuffle2 both start from the key's
\* polynomial hash modulo 2^32 and step to (state*1103515245 + 12345) modulo
\* 2^31 in exact integers: the uint64 product never overflows, every draw
\* lies in 0..bound-1, and the two draw the same sequence for the same bounds.
C27_GeneratorsAgree == \A bytes \in SeededKeys : GeneratorsExact(bytes)

\* a shuffle has run on a key whose seed does not fit in 31 bits
C27_Witness ==
    /\ mode = "shuffle" /\ pc = "done" /\ Len(key) > 0
    /\ BigMask(seedHash(key), 31) # seedHash(key)
    /\ subValues # Alphabet

\* two texts of different content and length
OtherTexts == {<<>>, <<72, 105, 33>>}

\* C26: the shuffled alphabet and the array the inverse map is built from are
\* those of the layer key alone: a reverseLayer call on any other text, of
\* different content and length, with the same layer key gives the same two
\* arrays as the call just made, in the layers of decryptSrc2 and in the call
\* of the round trip.
C26_PermutationOfKeyOnly ==
    /\ Len(layerLog) > 0 =>
          LET last == layerLog[Len(layerLog)]
          IN  \A other \in OtherTexts \ {last.input} :
                 LET r == reverseLayer(other, genKey, last.iteration, Alphabet)
                 IN  /\ r.layerKey = last.layerKey
                     /\ r.subValues = last.subValues
                     /\ r.charArray = last.charArray
    /\ (mode = "layer" /\ pc = "done") =>
          \A other \in OtherTexts \ {encoded} :
             LET r == reverseLayer(other, key, layer, Alphabet)
             IN  /\ r.subValues = subValues
                 /\ r.charArray = charArray

\* the three layers of a decryptSrc2 call have run on a text with alphabet
\* symbols, each with a shuffled alphabet of its own
C26_Witness ==
    /\ mode = "decrypt" /\ Len(layerLog) = layers
    /\ \E n \in 1..Len(layerLog[1].input) : LastIndex(Alphabet, layerLog[1].input[n]) >= 0
    /\ layerLog[1].subValues # Alphabet
    /\ layerLog[1].subValues # layerLog[2].subValues

\* C28: extractClientKey returns an error exactly when none of the six
\* patterns matches the page; when a pattern matches, it returns a key that
\* is not empty and made of letters and digits.
C28_FailsOnlyWithoutMatch ==
    extracted # NotCalled =>
        /\ extracted.err # "" <=> matchIdxOf(html) = -1
        /\ matchIdxOf(html) >= 0 =>
              /\ Len(extracted.key) > 0
              /\ \A n \in 1..Len(extracted.key) : extracted.key[n] \in Alnum

\* the same, for the pages on which the call returns no error
C28_KeyWhenReturned ==
    (extracted # NotCalled /\ extracted.err = "") =>
        /\ matchIdxOf(html) >= 0
        /\ Len(extracted.key) > 0
        /\ \A n \in 1..Len(extracted.key) : extracted.key[n] \in Alnum

\* without a match the call fails
C28_NoMatchFails ==
    (extracted # NotCalled /\ matchIdxOf(html) = -1) => extracted.err # ""

\* the cached server key: the "mega" entry of m.keys, or none
ServerKeyOf(m) == IF HasKey(m, "mega") THEN <<Lookup(m, "mega")>> ELSE <<>>

\* an erroring call has the mutex until it returns, returns no key, and a
\* call that finds no cached server key goes on to fetch the key feed
ErrorReleasesAndRefetches ==
    /\ [][\A g \in Goroutines :
            (getKey[g].pc = "check" /\ getKey'[g].pc # "check" /\ ~ServerKeyCached) =>
                getKey'[g].pc = "fetch"]_vars
    /\ [](\A g \in Goroutines :
            getKey[g].err # "" =>
                /\ getKey[g].pc \in {"unlock", "returned"}
                /\ getKey[g].key = <<>>
                /\ ~getKey[g].hit
                /\ getKey[g].pc = "unlock" => (keysMu = g /\ ~ServerKeyCached)
                /\ getKey[g].pc = "returned" => keysMu # g)

\* C29: a getMegacloudKey call that returns an error (failed request,
\* malformed JSON, feed without the "mega" entry) leaves m.keys exactly as it
\* was before the call, has released the mutex when it has returned, and the
\* next call fetches the key feed again.
C29_ErrorLeavesCache ==
    /\ [][\A g \in Goroutines :
            (keysMu = g /\ getKey'[g].err # "") => keys' = keys]_vars
    /\ ErrorReleasesAndRefetches

\* the same, for the cached server key in the place of the whole map
C29_ServerKeyLeft ==
    /\ [][\A g \in Goroutines :
            (keysMu = g /\ getKey'[g].err # "") =>
                ServerKeyOf(keys') = ServerKeyOf(keys)]_vars
    /\ ErrorReleasesAndRefetches

====
